---- MODULE Spec2Model ----
(***************************************************************************)
(* A model of the FOIA crawler core: the adaptive per-domain rate limiter, *)
(* the crawl-URL state machine with document versions, and the claim-based *)
(* analysis pipeline.  Each subsystem has its own specification; they      *)
(* share the module's variables and leave the other subsystems' variables  *)
(* unchanged.                                                              *)
(***************************************************************************)
EXTENDS Integers, Sequences, FiniteSets, TLC

VARIABLES
    \* ---- documents store (documents, document_versions tables)
    documents,          \* set of document rows [id, status]
    document_versions,  \* set of version rows [id, document_id, version, content_hash]
    next_version_id,    \* AUTOINCREMENT of document_versions.id
    \* ---- crawl frontier (crawl_urls table and the fetch workers)
    crawl_urls,         \* set of rows [url, status, retry_count, content_hash, document_id]
    fw,                 \* fetch worker -> [pc, url]
    \* ---- analysis pipeline (document_analysis_results table and its workers)
    analysis_results,   \* set of rows [document_id, version_id, method, backend, error, created_at]
    aw,                 \* analysis worker -> [pc, key]
    hours,              \* wall clock of the analysis pipeline, in hours
    \* ---- rate limiter (one RateLimiter shared by the HTTP clients)
    config,             \* the RateLimitConfig the limiter was built with
    domains,            \* domain -> None | Some(DomainState)
    now,                \* the monotonic clock, in milliseconds
    rc,                 \* client -> [pc, domain, wake]: its place in acquire
    server_errors,      \* number of report_server_error calls so far
    \* ---- the callers of the limiter and its SQLite backend
    returned,           \* what the last report_403 call returned to its caller
    success_run,        \* domain -> report_success calls in a row, as the caller counts them
    http,               \* client -> its get or head call: [pc, method, url, domain, status, ...]
    rate_limit_domains, \* the backend's rate_limit_domains table: domain -> None | Some(row)
    backend_result,     \* caller -> the RateLimitResult of its last backend acquire
    backend_call,       \* process -> None | Some([domain, now_ms]): its acquire in progress
    rate_limit_403s,    \* the backend's rate_limit_403s table: sequence of [domain, url, timestamp_ms]
    \* ---- the request log of the HTTP clients (crawl_requests table)
    crawl_repo,         \* whether the clients were built with_crawl_repo
    crawl_requests,     \* sequence of CrawlRequest rows, in the order logged
    \* ---- configuration history (config_history table)
    config_history,     \* [rows: set of rows [id, hash, created_at], next_id: its AUTOINCREMENT]
    utc_now,            \* the wall clock read by insert_if_new
    \* ---- page texts (document_pages table) and the text extractor
    document_pages,     \* [rows: set of DocumentPage rows, next_id, backend: the pool's database]
    extract_job,        \* the PDF given to the extractor and what it made of it
    \* ---- the persisted state of the limiter (rate_limit_state table)
    rate_limit_state    \* domain -> None | Some(row)

vars == <<documents, document_versions, next_version_id, crawl_urls, fw,
          analysis_results, aw, hours,
          config, domains, now, rc, server_errors,
          returned, success_run, http, rate_limit_domains, backend_result,
          backend_call, rate_limit_403s,
          crawl_repo, crawl_requests, config_history, utc_now,
          document_pages, extract_job, rate_limit_state>>

docVars == <<documents, document_versions, next_version_id>>
crawlVars == <<crawl_urls, fw>>
analysisVars == <<analysis_results, aw, hours>>
rlVars == <<config, domains, now, rc, server_errors>>
callerVars == <<returned, success_run, http>>
backendVars == <<rate_limit_domains, backend_result, backend_call, rate_limit_403s>>
logVars == <<crawl_repo, crawl_requests>>
historyVars == <<config_history, utc_now>>
pageVars == <<document_pages, extract_job>>
moreVars == <<logVars, historyVars, pageVars, rate_limit_state>>
extVars == <<callerVars, backendVars, moreVars>>

NULL == "NULL"
None == [some |-> FALSE]
Some(v) == [some |-> TRUE, value |-> v]

(***************************************************************************)
(* Bounds of the model.                                                    *)
(***************************************************************************)
\* Hours the analysis clock runs.
MaxHours == 2
\* Version rows ever inserted (document_versions.id).
MaxVersionId == 3
\* Requests acquire marks, over all domains (total_requests).
MaxRequests == 2
\* Rate limits a domain is hit by (rate_limit_hits).
MaxHits == 1
\* Entries of a domain's 403 ring.
MaxRing == 3
\* Successes a domain counts in a row (consecutive_successes).
MaxSuccesses == 5
\* Server errors reported to the limiter.
MaxServerErrors == 1
\* Whole 403 windows the clock idles through.
MaxIdleWindows == 1
\* Half 403 windows the clock steps through while 403s are reported.
MaxHalfWindows == 3
\* Successes in a row between the 403s of a site.
MaxSuccessesBetween == 1
\* Rate limits reported in a row for a site.
MaxRateLimits == 10
\* Successes reported in a row for a domain that recovers.
MaxSuccessRun == 75
\* How many configurations are ever inserted into the history.
MaxConfigs == 18
\* The longest text of a single-page PDF, in characters.
MaxTextLen == 6
\* The most pages a PDF has.
MaxPages == 3
\* How many times save_page is called.
MaxPageSaves == 3
\* How many tenths of a second the worker spends between its acquires.
MaxRequestTicks == 4
\* The longest list of URLs given to find_ready_url.
MaxListLen == 2

DocIds == {"doc-001", "doc-002"}
Methods == {"ocr", "whisper"}
\* The method of the pipeline whose workers run; the other method's rows
\* belong to a pipeline that runs elsewhere.
PipelineMethods == {"ocr"}
AnalysisWorkers == {"w1", "w2"}
FetchWorkers == {"f1", "f2"}
Urls == {"u1"}
Hashes == {"h1", "h2"}
RetryHoursChoices == {0, 2}
Backends == {"tesseract"}
Errors == {NULL, "tool crashed"}

(***************************************************************************)
(* Adaptive rate limiter: configuration and per-domain state.  Durations   *)
(* and instants are whole milliseconds.                                    *)
(***************************************************************************)
RATE_LIMIT_WINDOW == 30000
RATE_LIMIT_403_THRESHOLD == 3

RLClients == {"c1", "c2"}

\* URLs as the parser sees them: a host (NULL when the string is no URL)
\* and a path.
RLUrls ==
    {[host |-> "a.gov", path |-> "/1"], [host |-> "a.gov", path |-> "/2"],
     [host |-> "a.gov", path |-> "/3"], [host |-> "b.gov", path |-> "/1"],
     [host |-> NULL, path |-> "not a url"]}

\* The hosts of the URLs.
RLDomains == {u.host : u \in RLUrls} \ {NULL}

\* An f64 factor as a ratio of integers.
Ratio(num, den) == [num |-> num, den |-> den]

\* Duration::from_secs_f64(d.as_secs_f64() * factor), below a millisecond cut off.
mul_f64(duration, factor) == (duration * factor.num) \div factor.den

Min2(a, b) == IF a <= b THEN a ELSE b
Max2(a, b) == IF a >= b THEN a ELSE b

RateLimitConfig_default ==
    [base_delay |-> 500, min_delay |-> 100, max_delay |-> 60000,
     backoff_multiplier |-> Ratio(2, 1), recovery_multiplier |-> Ratio(4, 5),
     recovery_threshold |-> 5]

\* The configuration of test_backoff_on_rate_limit.
RateLimitConfig_test ==
    [RateLimitConfig_default EXCEPT !.base_delay = 100,
                                    !.backoff_multiplier = Ratio(2, 1)]

\* The configurations a RateLimiter is built with.
Configs == {RateLimitConfig_default, RateLimitConfig_test}

\* Url::parse(url).host_str()
extract_domain(url) == IF url.host = NULL THEN None ELSE Some(url.host)

DomainState_new(base_delay) ==
    [current_delay |-> base_delay, last_request |-> None,
     consecutive_successes |-> 0, recent_403s |-> <<>>, in_backoff |-> FALSE,
     total_requests |-> 0, rate_limit_hits |-> 0]

\* The distinct URLs of a 403 ring.
UniqueUrls(ring) == {ring[i].url : i \in 1..Len(ring)}

\* An add_403 that counts the 403s of the window, not their distinct URLs.
add_403_counting_entries(state, url, t) ==
    LET cutoff == t - RATE_LIMIT_WINDOW
        ring == state.recent_403s
        cutoff_idx == Cardinality({i \in 1..Len(ring) :
                          \A j \in 1..i : ring[j].time < cutoff})
        kept == Append(SubSeq(ring, cutoff_idx + 1, Len(ring)),
                       [time |-> t, url |-> url])
    IN [state |-> [state EXCEPT !.recent_403s = kept], count |-> Len(kept)]

\* DomainState::add_403 at instant t: drop the leading entries older than the
\* window, push the new one, count the distinct URLs.
add_403(state, url, t) ==
    LET cutoff == t - RATE_LIMIT_WINDOW
        ring == state.recent_403s
        cutoff_idx == Cardinality({i \in 1..Len(ring) :
                          \A j \in 1..i : ring[j].time < cutoff})
        kept == Append(SubSeq(ring, cutoff_idx + 1, Len(ring)),
                       [time |-> t, url |-> url])
    IN [state |-> [state EXCEPT !.recent_403s = kept],
        count |-> Cardinality(UniqueUrls(kept))]

clear_403_tracking(state) == [state EXCEPT !.recent_403s = <<>>]

\* A time_until_ready that gives the time gone by for the time left.
time_until_ready_elapsed(state, t) ==
    IF ~state.last_request.some THEN 0
    ELSE LET elapsed == t - state.last_request.value IN
         IF elapsed >= state.current_delay THEN 0
         ELSE elapsed

\* DomainState::time_until_ready at instant t.
time_until_ready(state, t) ==
    IF ~state.last_request.some THEN 0
    ELSE LET elapsed == t - state.last_request.value IN
         IF elapsed >= state.current_delay THEN 0
         ELSE state.current_delay - elapsed

\* A success that counts and recovers but keeps the 403s seen so far.
report_success_keeping_403s(cfg, state) ==
    LET counted == [state EXCEPT !.consecutive_successes = @ + 1]
        reduced == Max2(mul_f64(counted.current_delay, cfg.recovery_multiplier),
                        cfg.min_delay)
    IN
    IF counted.in_backoff /\ counted.consecutive_successes >= cfg.recovery_threshold
    THEN IF reduced <= cfg.base_delay
         THEN [counted EXCEPT !.in_backoff = FALSE,
                              !.current_delay = cfg.base_delay,
                              !.consecutive_successes = 0]
         ELSE [counted EXCEPT !.current_delay = reduced,
                              !.consecutive_successes = 0]
    ELSE counted

\* A recovery that reduces the delay and never leaves backoff.
report_success_without_exit(cfg, state) ==
    LET counted == clear_403_tracking(
                      [state EXCEPT !.consecutive_successes = @ + 1])
    IN
    IF counted.in_backoff /\ counted.consecutive_successes >= cfg.recovery_threshold
    THEN [counted EXCEPT
             !.current_delay = Max2(mul_f64(counted.current_delay,
                                            cfg.recovery_multiplier), cfg.min_delay),
             !.consecutive_successes = 0]
    ELSE counted

\* A recovery that forgets to reset the success counter after a reduction.
report_success_without_reset(cfg, state) ==
    LET counted == clear_403_tracking(
                      [state EXCEPT !.consecutive_successes = @ + 1])
        reduced == Max2(mul_f64(counted.current_delay, cfg.recovery_multiplier),
                        cfg.min_delay)
    IN
    IF counted.in_backoff /\ counted.consecutive_successes >= cfg.recovery_threshold
    THEN IF reduced <= cfg.base_delay
         THEN [counted EXCEPT !.in_backoff = FALSE,
                              !.current_delay = cfg.base_delay]
         ELSE [counted EXCEPT !.current_delay = reduced]
    ELSE counted

\* RateLimiter::report_success on a domain the limiter knows.
report_success(cfg, state) ==
    LET counted == clear_403_tracking(
                      [state EXCEPT !.consecutive_successes = @ + 1])
        reduced == Max2(mul_f64(counted.current_delay, cfg.recovery_multiplier),
                        cfg.min_delay)
    IN
    IF counted.in_backoff /\ counted.consecutive_successes >= cfg.recovery_threshold
    THEN IF reduced <= cfg.base_delay
         THEN [counted EXCEPT !.in_backoff = FALSE,
                              !.current_delay = cfg.base_delay,
                              !.consecutive_successes = 0]
         ELSE [counted EXCEPT !.current_delay = reduced,
                              !.consecutive_successes = 0]
    ELSE counted

\* The backoff of a confirmed rate limit.
BackOff(cfg, state) ==
    [clear_403_tracking(state) EXCEPT
        !.rate_limit_hits = @ + 1,
        !.consecutive_successes = 0,
        !.in_backoff = TRUE,
        !.current_delay = Min2(mul_f64(state.current_delay, cfg.backoff_multiplier),
                               cfg.max_delay)]

\* A backoff that grows past max_delay.
report_rate_limit_uncapped(cfg, state) ==
    [clear_403_tracking(state) EXCEPT
        !.rate_limit_hits = @ + 1,
        !.consecutive_successes = 0,
        !.in_backoff = TRUE,
        !.current_delay = mul_f64(state.current_delay, cfg.backoff_multiplier)]

\* RateLimiter::report_rate_limit on a domain the limiter knows.
report_rate_limit(cfg, state) == BackOff(cfg, state)

\* A report_403 that wants more than the threshold of distinct URLs.
report_403_above_threshold(cfg, state, url, has_retry_after, t) ==
    LET added == add_403(state, url, t)
        tracked == [added.state EXCEPT !.consecutive_successes = 0]
        is_rate_limit == has_retry_after \/ added.count > RATE_LIMIT_403_THRESHOLD
    IN
    IF is_rate_limit THEN [state |-> BackOff(cfg, tracked), detected |-> TRUE]
    ELSE [state |-> tracked, detected |-> FALSE]

\* A report_403 that does not look at Retry-After.
report_403_pattern_only(cfg, state, url, has_retry_after, t) ==
    LET added == add_403(state, url, t)
        tracked == [added.state EXCEPT !.consecutive_successes = 0]
        is_rate_limit == added.count >= RATE_LIMIT_403_THRESHOLD
    IN
    IF is_rate_limit THEN [state |-> BackOff(cfg, tracked), detected |-> TRUE]
    ELSE [state |-> tracked, detected |-> FALSE]

\* RateLimiter::report_403 at instant t: [state, detected].
report_403(cfg, state, url, has_retry_after, t) ==
    LET added == add_403(state, url, t)
        tracked == [added.state EXCEPT !.consecutive_successes = 0]
        is_rate_limit == has_retry_after \/ added.count >= RATE_LIMIT_403_THRESHOLD
    IN
    IF is_rate_limit THEN [state |-> BackOff(cfg, tracked), detected |-> TRUE]
    ELSE [state |-> tracked, detected |-> FALSE]

\* A server error that slows down past max_delay.
report_server_error_uncapped(cfg, state) ==
    [state EXCEPT !.current_delay = mul_f64(state.current_delay, Ratio(3, 2))]

\* A server error that puts the domain in backoff, as a rate limit does.
report_server_error_backing_off(cfg, state) ==
    [state EXCEPT !.current_delay =
                     Min2(mul_f64(state.current_delay, Ratio(3, 2)), cfg.max_delay),
                  !.in_backoff = TRUE]

\* RateLimiter::report_server_error on a domain the limiter knows.
report_server_error(cfg, state) ==
    [state EXCEPT !.current_delay =
        Min2(mul_f64(state.current_delay, Ratio(3, 2)), cfg.max_delay)]

\* A limiter right after construction, with nobody using it.
RateLimiterNew(cfg) ==
    /\ config = cfg
    /\ domains = [d \in RLDomains |-> None]
    /\ now = 0
    /\ rc = [c \in RLClients |-> [pc |-> "idle", domain |-> NULL, wake |-> 0]]
    /\ server_errors = 0

\* A request that has not been made.
NoRequest ==
    [pc |-> "idle", method |-> NULL, url |-> NULL, domain |-> None, status |-> 0,
     has_retry_after |-> FALSE, reports |-> 0,
     etag |-> None, last_modified |-> None, request_log |-> None, logged |-> 0]

\* Nobody has called the limiter or its backend yet.
LimiterCallersIdle ==
    /\ returned = None
    /\ success_run = [d \in RLDomains |-> 0]
    /\ http = [c \in RLClients |-> NoRequest]
    /\ rate_limit_domains = [d \in RLDomains |-> None]
    /\ backend_result = [c \in RLClients |-> None]
    /\ backend_call = [c \in RLClients |-> None]
    /\ rate_limit_403s = <<>>

\* Clients built without a crawl repository: they log nothing.
NoRequestLog ==
    /\ crawl_repo = FALSE
    /\ crawl_requests = <<>>

\* No configuration was recorded yet.
HistoryEmpty ==
    /\ config_history = [rows |-> {}, next_id |-> 1]
    /\ utc_now = 0

\* No PDF was given to the extractor.
NoJob == [pages |-> <<>>, result |-> None]

\* No page was saved and nothing was extracted yet.
PagesEmpty ==
    /\ document_pages = [rows |-> {}, next_id |-> 1, backend |-> "sqlite"]
    /\ extract_job = NoJob

\* No run has saved the state of the limiter.
NothingPersisted == rate_limit_state = [d \in RLDomains |-> None]

CallersIdle ==
    /\ LimiterCallersIdle
    /\ NoRequestLog
    /\ HistoryEmpty
    /\ PagesEmpty
    /\ NothingPersisted

RequestsOf(d) == IF domains[d].some THEN domains[d].value.total_requests ELSE 0
\* The requests marked and about to be marked, which MaxRequests caps.
TotalRequests ==
    Cardinality(UNION {{<<d, i>> : i \in 1..RequestsOf(d)} : d \in RLDomains})
      + Cardinality({c \in RLClients : rc[c].pc = "sleeping"})

\* acquire, first half: under the read lock the caller computes its wait
\* from the domain's state, then lets the lock go and sleeps.
AcquireRead(c, url) ==
    /\ rc[c].pc = "idle"
    /\ LET domain == extract_domain(url) IN
       IF ~domain.some
       THEN UNCHANGED rc
       ELSE /\ TotalRequests < MaxRequests
            /\ LET wait_time == IF domains[domain.value].some
                                THEN time_until_ready(domains[domain.value].value, now)
                                ELSE 0
               IN rc' = [rc EXCEPT ![c] = [pc |-> "sleeping",
                                           domain |-> domain.value,
                                           wake |-> now + wait_time]]
    /\ UNCHANGED <<config, domains, now, server_errors,
                   docVars, crawlVars, analysisVars,
                   extVars>>

\* acquire, second half: after the sleep the caller takes the write lock,
\* creates the domain's state if there is none and marks the request started.
AcquireMark(c) ==
    /\ rc[c].pc = "sleeping"
    /\ now >= rc[c].wake
    /\ LET domain == rc[c].domain
           state == IF domains[domain].some THEN domains[domain].value
                    ELSE DomainState_new(config.base_delay)
           marked == [state EXCEPT !.last_request = Some(now),
                                   !.total_requests = @ + 1]
       IN domains' = [domains EXCEPT ![domain] = Some(marked)]
    /\ rc' = [rc EXCEPT ![c] = [pc |-> "idle", domain |-> NULL, wake |-> 0]]
    /\ UNCHANGED <<config, now, server_errors, docVars, crawlVars, analysisVars,
                   extVars>>

\* acquire of a caller that nobody interleaves with and that comes when the
\* domain is ready: no wait, no sleep, the request is marked started.
AcquireReady(c, url) ==
    /\ rc[c].pc = "idle"
    /\ LET domain == extract_domain(url) IN
       IF ~domain.some
       THEN UNCHANGED domains
       ELSE /\ TotalRequests < MaxRequests
            /\ LET known == domains[domain.value].some
                   wait_time == IF known
                                THEN time_until_ready(domains[domain.value].value, now)
                                ELSE 0
                   state == IF known THEN domains[domain.value].value
                            ELSE DomainState_new(config.base_delay)
               IN /\ wait_time = 0
                  /\ domains' = [domains EXCEPT ![domain.value] =
                         Some([state EXCEPT !.last_request = Some(now),
                                            !.total_requests = @ + 1])]
    /\ UNCHANGED <<config, now, rc, server_errors, docVars, crawlVars, analysisVars,
                   extVars>>

\* Time passes up to the deadline of a sleeper.
WakeTick(t) ==
    /\ t > now
    /\ \E c \in RLClients : rc[c].pc = "sleeping" /\ rc[c].wake = t
    /\ now' = t
    /\ UNCHANGED <<config, domains, rc, server_errors,
                   docVars, crawlVars, analysisVars,
                   extVars>>

\* Nothing happens for a whole 403 window.
IdleTick ==
    /\ now < MaxIdleWindows * RATE_LIMIT_WINDOW
    /\ now' = now + RATE_LIMIT_WINDOW
    /\ UNCHANGED <<config, domains, rc, server_errors,
                   docVars, crawlVars, analysisVars,
                   extVars>>

\* The reports change the state of a domain the limiter knows; for any other
\* domain they do nothing.
ReportSuccess(d) ==
    /\ domains[d].some
    /\ domains[d].value.consecutive_successes < MaxSuccesses
    /\ domains' = [domains EXCEPT ![d] = Some(report_success(config, @.value))]
    /\ UNCHANGED <<config, now, rc, server_errors,
                   docVars, crawlVars, analysisVars,
                   extVars>>

\* report_rate_limit on a domain that was hit by fewer than max_hits rate limits.
ReportRateLimitWithin(d, max_hits) ==
    /\ domains[d].some
    /\ domains[d].value.rate_limit_hits < max_hits
    /\ domains' = [domains EXCEPT ![d] = Some(report_rate_limit(config, @.value))]
    /\ UNCHANGED <<config, now, rc, server_errors,
                   docVars, crawlVars, analysisVars,
                   extVars>>

ReportRateLimit(d) == ReportRateLimitWithin(d, MaxHits)

Report403(d, url, has_retry_after) ==
    /\ domains[d].some
    /\ LET reported == report_403(config, domains[d].value, url, has_retry_after, now) IN
         /\ reported.detected => domains[d].value.rate_limit_hits < MaxHits
         /\ Len(domains[d].value.recent_403s) < MaxRing
         /\ domains' = [domains EXCEPT ![d] = Some(reported.state)]
    /\ UNCHANGED <<config, now, rc, server_errors,
                   docVars, crawlVars, analysisVars,
                   extVars>>

ReportServerError(d) ==
    /\ domains[d].some
    /\ server_errors < MaxServerErrors
    /\ domains' = [domains EXCEPT ![d] = Some(report_server_error(config, @.value))]
    /\ server_errors' = server_errors + 1
    /\ UNCHANGED <<config, now, rc, docVars, crawlVars, analysisVars,
                   extVars>>

\* report_success of a caller that counts its successes in a row.
ReportSuccessCounted(d) ==
    /\ domains[d].some
    /\ success_run[d] < MaxSuccessRun
    /\ domains' = [domains EXCEPT ![d] = Some(report_success(config, @.value))]
    /\ success_run' = [success_run EXCEPT ![d] = @ + 1]
    /\ UNCHANGED <<config, now, rc, server_errors, returned, http, backendVars, moreVars,
                   docVars, crawlVars, analysisVars>>

\* Duration::as_millis and Duration::from_millis, for durations counted in
\* units of which per_ms make a millisecond.
as_millis(duration, per_ms) == duration \div per_ms
from_millis(ms, per_ms) == ms * per_ms

\* load_rate_limit_state into a limiter without domains: a row is restored
\* when it is in backoff or above the base delay.
load_rate_limit_state_in(cfg, rows, per_ms) ==
    [d \in RLDomains |->
        IF \E row \in rows :
              /\ row.domain = d
              /\ row.in_backoff \/ row.current_delay_ms > as_millis(cfg.base_delay, per_ms)
        THEN LET row == CHOOSE r \in rows : r.domain = d IN
             Some([current_delay |-> from_millis(row.current_delay_ms, per_ms),
                   last_request |-> None,
                   consecutive_successes |-> 0,
                   recent_403s |-> <<>>,
                   in_backoff |-> row.in_backoff,
                   total_requests |-> row.total_requests,
                   rate_limit_hits |-> row.rate_limit_hits])
        ELSE None]

\* load_rate_limit_state of a limiter whose durations are whole milliseconds.
load_rate_limit_state(cfg, rows) == load_rate_limit_state_in(cfg, rows, 1)

\* report_403 of a caller that looks at what it returns.
Report403Observed(d, url, has_retry_after) ==
    /\ domains[d].some
    /\ LET reported == report_403(config, domains[d].value, url, has_retry_after, now) IN
         /\ reported.detected => domains[d].value.rate_limit_hits < MaxHits
         /\ Len(domains[d].value.recent_403s) < MaxRing
         /\ domains' = [domains EXCEPT ![d] = Some(reported.state)]
         /\ returned' = Some([has_retry_after |-> has_retry_after,
                              detected |-> reported.detected])
    /\ UNCHANGED <<config, now, rc, server_errors, success_run, http, backendVars, moreVars,
                   docVars, crawlVars, analysisVars>>

\* The caller is busy for a tenth of a second: a request, its response.
RequestTick ==
    /\ now < MaxRequestTicks * 100
    /\ now' = now + 100
    /\ UNCHANGED <<config, domains, rc, server_errors, extVars,
                   docVars, crawlVars, analysisVars>>

\* Half a 403 window goes by.
HalfWindowTick ==
    /\ now < MaxHalfWindows * (RATE_LIMIT_WINDOW \div 2)
    /\ now' = now + RATE_LIMIT_WINDOW \div 2
    /\ UNCHANGED <<config, domains, rc, server_errors, extVars,
                   docVars, crawlVars, analysisVars>>

(***************************************************************************)
(* Documents store.                                                        *)
(***************************************************************************)
Max(S) == CHOOSE x \in S : \A y \in S : y <= x

VersionsOf(versions, document_id) ==
    {v \in versions : v.document_id = document_id}

\* DocumentVersionRecord -> DocumentVersion: the model's id is the row id.
version_record_to_model(record) ==
    [id |-> record.id, content_hash |-> record.content_hash]

\* ORDER BY version ASC: the first version instead of the last.
get_latest_version_ascending(versions, document_id) ==
    LET rows == VersionsOf(versions, document_id) IN
    IF rows = {} THEN None
    ELSE Some(version_record_to_model(
                 CHOOSE v \in rows : \A o \in rows : v.version <= o.version))

\* ORDER BY version DESC, first row: Option<DocumentVersion>.
get_latest_version(versions, document_id) ==
    LET rows == VersionsOf(versions, document_id) IN
    IF rows = {} THEN None
    ELSE Some(version_record_to_model(
                 CHOOSE v \in rows : \A o \in rows : o.version <= v.version))

\* INSERT of a version row under UNIQUE(document_id, version); the version
\* number is the caller's version.id.
add_version(versions, row_id, document_id, version) ==
    IF \E v \in VersionsOf(versions, document_id) : v.version = version.id
    THEN [ok |-> FALSE, versions |-> versions]
    ELSE [ok |-> TRUE,
          versions |-> versions \cup
              {[id |-> row_id, document_id |-> document_id,
                version |-> version.id, content_hash |-> version.content_hash]}]

\* REPLACE INTO documents.
save(docs, doc) == {d \in docs : d.id # doc.id} \cup {doc}

\* Delete a document and all its versions.
delete(docs, versions, id) ==
    [documents |-> {d \in docs : d.id # id},
     versions |-> {v \in versions : v.document_id # id},
     deleted |-> \E d \in docs : d.id = id]

(***************************************************************************)
(* Analysis pipeline: queries.                                             *)
(***************************************************************************)
AnalysisKey(document_id, version_id, method) ==
    [document_id |-> document_id, version_id |-> version_id, method |-> method]

KeyOf(row) == AnalysisKey(row.document_id, row.version_id, row.method)

RowsOfKey(results, key) == {r \in results : KeyOf(r) = key}

NoKey == AnalysisKey(NULL, 0, NULL)

\* The key of a document's current version for a method (NoKey without a version).
CurrentKey(versions, document_id, method) ==
    LET latest == get_latest_version(versions, document_id) IN
    IF ~latest.some THEN NoKey
    ELSE AnalysisKey(document_id, latest.value.id, method)

count_pending_analysis(results, method) ==
    Cardinality({r \in results : r.method = method /\ r.backend = "pending"})

\* A cooldown that still holds at the instant the retry interval ends.
BlocksAnalysis_inclusive(row, now_h, retry_hours) ==
    \/ row.error = NULL
    \/ row.error # NULL /\ row.created_at >= now_h - retry_hours

\* A cooldown under which a pending claim expires as a failure does.
BlocksAnalysis_expiring_claims(row, now_h, retry_hours) ==
    \/ row.error = NULL /\ row.backend # "pending"
    \/ row.backend = "pending" /\ row.created_at > now_h - retry_hours
    \/ row.error # NULL /\ row.created_at > now_h - retry_hours

\* A row that keeps its key out of the work queue: a success or pending
\* claim (error IS NULL), or a failure newer than the retry interval.
BlocksAnalysis(row, now_h, retry_hours) ==
    \/ row.error = NULL
    \/ row.error # NULL /\ row.created_at > now_h - retry_hours

\* An eligibility that does not look at the document's status.
needs_analysis_any_status(docs, versions, results, doc, method, now_h, retry_hours) ==
    /\ doc \in docs
    /\ CurrentKey(versions, doc.id, method) # NoKey
    /\ \A r \in RowsOfKey(results, CurrentKey(versions, doc.id, method)) :
          ~BlocksAnalysis(r, now_h, retry_hours)

needs_analysis(docs, versions, results, doc, method, now_h, retry_hours) ==
    /\ doc \in docs
    /\ doc.status # "failed"
    /\ CurrentKey(versions, doc.id, method) # NoKey
    /\ \A r \in RowsOfKey(results, CurrentKey(versions, doc.id, method)) :
          ~BlocksAnalysis(r, now_h, retry_hours)

get_needing_analysis(docs, versions, results, method, now_h, retry_hours) ==
    {d \in docs : needs_analysis(docs, versions, results, d, method, now_h, retry_hours)}

count_needing_analysis(docs, versions, results, method, now_h, retry_hours) ==
    Cardinality(get_needing_analysis(docs, versions, results, method, now_h, retry_hours))

\* The rows of a method that hold a result without error.
count_succeeded(results, method) ==
    Cardinality({r \in results :
        r.method = method /\ r.error = NULL /\ r.backend # "pending"})

\* The rows of a method that hold a failure newer than the retry interval.
count_recent_failures(results, method, now_h, retry_hours) ==
    Cardinality({r \in results :
        r.method = method /\ r.error # NULL /\ r.created_at > now_h - retry_hours})

\* The documents the pipeline of a method works on: those with a current
\* version that are not in the terminal failure status.
count_eligible_documents(docs, versions, method) ==
    Cardinality({d \in docs :
        d.status # "failed" /\ CurrentKey(versions, d.id, method) # NoKey})

(***************************************************************************)
(* Analysis pipeline: claim and store.                                     *)
(***************************************************************************)
PendingRow(key, now_h) ==
    [document_id |-> key.document_id, version_id |-> key.version_id,
     method |-> key.method, backend |-> "pending", error |-> NULL,
     created_at |-> now_h]

ResultRow(key, backend, error, now_h) ==
    [document_id |-> key.document_id, version_id |-> key.version_id,
     method |-> key.method, backend |-> backend, error |-> error,
     created_at |-> now_h]

\* A claim that overwrites whatever row the key has, so that it never fails.
claim_analysis_replacing(results, key, now_h) ==
    [ok |-> TRUE,
     results |-> (results \ RowsOfKey(results, key)) \cup {PendingRow(key, now_h)}]

\* INSERT of the pending sentinel; the unique key makes it fail when the key
\* has a row.
claim_analysis(results, key, now_h) ==
    IF RowsOfKey(results, key) = {}
    THEN [ok |-> TRUE, results |-> results \cup {PendingRow(key, now_h)}]
    ELSE [ok |-> FALSE, results |-> results]

\* A store that adds the final row next to the row the key already has.
store_analysis_result_appending(results, key, backend, error, now_h) ==
    results \cup {ResultRow(key, backend, error, now_h)}

\* The final row replaces the row of the key.
store_analysis_result(results, key, backend, error, now_h) ==
    (results \ RowsOfKey(results, key)) \cup {ResultRow(key, backend, error, now_h)}

(***************************************************************************)
(* Analysis pipeline: the worker loop and the clock.                       *)
(***************************************************************************)

AtRest(w) == aw[w].pc \in {"idle", "skipped", "stored"}

\* Pick a candidate that get_needing_analysis returns.
AnalysisSelect(w) ==
    /\ AtRest(w)
    /\ \E m \in PipelineMethods, retry_hours \in RetryHoursChoices :
         \E d \in get_needing_analysis(documents, document_versions,
                                       analysis_results, m, hours, retry_hours) :
            aw' = [aw EXCEPT ![w] =
                     [pc |-> "selected",
                      key |-> CurrentKey(document_versions, d.id, m)]]
    /\ UNCHANGED <<rlVars, docVars, crawlVars, analysis_results, hours,
                   extVars>>

\* claim_analysis on the candidate: the winner works, the loser skips.
AnalysisClaim(w) ==
    /\ aw[w].pc = "selected"
    /\ LET got == claim_analysis(analysis_results,
                                 aw[w].key, hours) IN
         /\ analysis_results' = got.results
         /\ aw' = [aw EXCEPT ![w].pc = IF got.ok THEN "working" ELSE "skipped"]
    /\ UNCHANGED <<rlVars, docVars, crawlVars, hours,
                   extVars>>

\* The worker that holds the claim stores its result.
AnalysisStore(w, backend, error) ==
    /\ aw[w].pc = "working"
    /\ analysis_results' = store_analysis_result(analysis_results,
                               aw[w].key, backend, error, hours)
    /\ aw' = [aw EXCEPT ![w].pc = "stored"]
    /\ UNCHANGED <<rlVars, docVars, crawlVars, hours,
                   extVars>>

\* store_analysis_result called for a key nobody claimed.
StoreUnclaimed(d, m, backend, error) ==
    /\ CurrentKey(document_versions, d, m) # NoKey
    /\ analysis_results' = store_analysis_result(analysis_results,
                               CurrentKey(document_versions, d, m), backend, error, hours)
    /\ UNCHANGED <<rlVars, docVars, crawlVars, aw, hours,
                   extVars>>

AnalysisTick ==
    /\ hours < MaxHours
    /\ hours' = hours + 1
    /\ UNCHANGED <<rlVars, docVars, crawlVars, analysis_results, aw,
                   extVars>>

InitAnalysis ==
    /\ documents = {[id |-> d, status |-> "pending"] : d \in DocIds}
    /\ document_versions =
         {[id |-> 1, document_id |-> "doc-001", version |-> 1, content_hash |-> "h1"],
          [id |-> 2, document_id |-> "doc-002", version |-> 1, content_hash |-> "h1"]}
    /\ next_version_id = 3
    /\ crawl_urls = {}
    /\ fw = [w \in FetchWorkers |-> [pc |-> "idle", url |-> NULL]]
    /\ analysis_results = {PendingRow(AnalysisKey("doc-001", 1, "whisper"), 0)}
    /\ aw = [w \in AnalysisWorkers |-> [pc |-> "idle", key |-> NoKey]]
    /\ hours = 0
    /\ RateLimiterNew(RateLimitConfig_default)
    /\ CallersIdle

NextAnalysis ==
    \/ \E w \in AnalysisWorkers : AnalysisSelect(w)
    \/ \E w \in AnalysisWorkers : AnalysisClaim(w)
    \/ \E w \in AnalysisWorkers, b \in Backends, e \in Errors : AnalysisStore(w, b, e)
    \/ \E d \in DocIds, m \in PipelineMethods, b \in Backends, e \in Errors :
          StoreUnclaimed(d, m, b, e)
    \/ AnalysisTick

SpecAnalysis == InitAnalysis /\ [][NextAnalysis]_vars

\* The key of the task whose attempt failed.
FailedKey == AnalysisKey("doc-001", 1, "ocr")

\* The failure row an attempt at hour 0 left.
FailureRow == ResultRow(FailedKey, "tesseract", "tool crashed", 0)

\* The workers run over a repository that holds one failure.
InitRetry ==
    /\ documents = {[id |-> d, status |-> "pending"] : d \in DocIds}
    /\ document_versions =
         {[id |-> 1, document_id |-> "doc-001", version |-> 1, content_hash |-> "h1"],
          [id |-> 2, document_id |-> "doc-002", version |-> 1, content_hash |-> "h1"]}
    /\ next_version_id = 3
    /\ crawl_urls = {}
    /\ fw = [w \in FetchWorkers |-> [pc |-> "idle", url |-> NULL]]
    /\ analysis_results = {FailureRow}
    /\ aw = [w \in AnalysisWorkers |-> [pc |-> "idle", key |-> NoKey]]
    /\ hours = 0
    /\ RateLimiterNew(RateLimitConfig_default)
    /\ CallersIdle

NextRetry ==
    \/ \E w \in AnalysisWorkers : AnalysisSelect(w)
    \/ \E w \in AnalysisWorkers : AnalysisClaim(w)
    \/ \E w \in AnalysisWorkers, b \in Backends, e \in Errors : AnalysisStore(w, b, e)
    \/ AnalysisTick

\* Time passes, and a worker that can select the failed task, claim what it
\* selected or store what it claimed does so.
SpecRetry ==
    /\ InitRetry /\ [][NextRetry]_vars
    /\ WF_vars(AnalysisTick)
    /\ \A w \in AnalysisWorkers :
          /\ WF_vars(AnalysisClaim(w))
          /\ WF_vars(\E b \in Backends, e \in Errors : AnalysisStore(w, b, e))
          /\ SF_vars(AnalysisSelect(w) /\ aw'[w].key = FailedKey)

(***************************************************************************)
(* Analysis pipeline: the queries over a repository that its callers       *)
(* change directly (status updates, claims, stores), as the tests do.      *)
(***************************************************************************)
\* The statuses the queries tell apart: the one a new document has, one of
\* the later ones, and the terminal failure.
DocumentStatuses == {"pending", "indexed", "failed"}

\* UPDATE documents SET status WHERE id.
update_status(docs, id, status) ==
    {IF d.id = id THEN [d EXCEPT !.status = status] ELSE d : d \in docs}

UpdateStatus(d, status) ==
    /\ documents' = update_status(documents, d, status)
    /\ documents' # documents
    /\ UNCHANGED <<rlVars, document_versions, next_version_id, crawlVars,
                   analysisVars,
                   extVars>>

\* claim_analysis called on the repository for a document's current version.
ClaimAnalysis(d, m) ==
    /\ CurrentKey(document_versions, d, m) # NoKey
    /\ LET got == claim_analysis(analysis_results,
                                 CurrentKey(document_versions, d, m), hours) IN
         /\ got.ok
         /\ analysis_results' = got.results
    /\ UNCHANGED <<rlVars, docVars, crawlVars, aw, hours,
                   extVars>>

InitQueries ==
    /\ documents = {[id |-> d, status |-> "pending"] : d \in DocIds}
    /\ document_versions =
         {[id |-> 1, document_id |-> "doc-001", version |-> 1, content_hash |-> "h1"],
          [id |-> 2, document_id |-> "doc-002", version |-> 1, content_hash |-> "h1"]}
    /\ next_version_id = 3
    /\ crawl_urls = {}
    /\ fw = [w \in FetchWorkers |-> [pc |-> "idle", url |-> NULL]]
    /\ analysis_results = {}
    /\ aw = [w \in AnalysisWorkers |-> [pc |-> "idle", key |-> NoKey]]
    /\ hours = 0
    /\ RateLimiterNew(RateLimitConfig_default)
    /\ CallersIdle

NextQueries ==
    \/ \E d \in DocIds, s \in DocumentStatuses : UpdateStatus(d, s)
    \/ \E d \in DocIds, m \in PipelineMethods : ClaimAnalysis(d, m)
    \/ \E d \in DocIds, m \in Methods, b \in Backends, e \in Errors :
          StoreUnclaimed(d, m, b, e)
    \/ AnalysisTick

SpecQueries == InitQueries /\ [][NextQueries]_vars

(***************************************************************************)
(* Crawl frontier: the CrawlUrl state machine.                             *)
(***************************************************************************)
MaxRetries == 3

\* The document a URL's bytes belong to (derived from source and URL).
DocOf(url) == IF url = "u1" THEN "doc-001" ELSE "doc-002"

\* The documents of the crawled URLs.
CrawlDocIds == {DocOf(u) : u \in Urls}

NewCrawlUrl(url) ==
    [url |-> url, status |-> "pending", retry_count |-> 0,
     content_hash |-> NULL, document_id |-> NULL]

\* A claim that takes the URL whatever its status.
CrawlUrl_mark_fetching_unguarded(row) == [row EXCEPT !.status = "fetching"]

\* pending -> fetching
CrawlUrl_mark_fetching(row) ==
    IF row.status = "pending" THEN [row EXCEPT !.status = "fetching"] ELSE row

\* fetching -> fetched
CrawlUrl_mark_fetched(row, content_hash, document_id) ==
    IF row.status = "fetching"
    THEN [row EXCEPT !.status = "fetched", !.content_hash = content_hash,
                     !.document_id = document_id]
    ELSE row

\* fetching -> skipped
CrawlUrl_mark_skipped(row) ==
    IF row.status = "fetching" THEN [row EXCEPT !.status = "skipped"] ELSE row

\* fetching -> pending with one more retry, or failed once the retries are used up
CrawlUrl_mark_failed(row, max_retries) ==
    IF row.status = "fetching"
    THEN [row EXCEPT !.retry_count = row.retry_count + 1,
                     !.status = IF row.retry_count + 1 >= max_retries
                                THEN "failed" ELSE "pending"]
    ELSE row

\* SELECT of the row of (source_id, url): the empty set or one row.
get_url(urls, url) == {r \in urls : r.url = url}

\* UPDATE of the row of (source_id, url).
update_url(urls, row) == {r \in urls : r.url # row.url} \cup {row}

\* An add_url that replaces the row it finds.
add_url_replacing(urls, row) ==
    [inserted |-> TRUE, urls |-> {r \in urls : r.url # row.url} \cup {row}]

\* INSERT of a pending row iff (source_id, url) has none.
add_url(urls, row) ==
    IF get_url(urls, row.url) = {}
    THEN [inserted |-> TRUE, urls |-> urls \cup {row}]
    ELSE [inserted |-> FALSE, urls |-> urls]

\* HttpClient::mark_*: read the row, change it, write it back.  None of
\* them tells its caller what the status was.
mark_fetching(urls, url) ==
    IF get_url(urls, url) = {} THEN urls
    ELSE update_url(urls, CrawlUrl_mark_fetching(CHOOSE r \in get_url(urls, url) : TRUE))

mark_fetched(urls, url, content_hash, document_id) ==
    IF get_url(urls, url) = {} THEN urls
    ELSE update_url(urls, CrawlUrl_mark_fetched(CHOOSE r \in get_url(urls, url) : TRUE,
                                                content_hash, document_id))

mark_skipped(urls, url) ==
    IF get_url(urls, url) = {} THEN urls
    ELSE update_url(urls, CrawlUrl_mark_skipped(CHOOSE r \in get_url(urls, url) : TRUE))

mark_failed(urls, url) ==
    IF get_url(urls, url) = {} THEN urls
    ELSE update_url(urls, CrawlUrl_mark_failed(CHOOSE r \in get_url(urls, url) : TRUE,
                                               MaxRetries))

track_url(urls, row) == add_url(urls, row)

(***************************************************************************)
(* Crawl frontier: the fetch worker and the operations on the store.       *)
(***************************************************************************)
Responses ==
    [status : {200}, hash : Hashes] \cup [status : {304, 500}, hash : {NULL}]

\* The version number of the next capture of a document.
NextVersionNumber(versions, document_id) ==
    IF VersionsOf(versions, document_id) = {} THEN 1
    ELSE Max({v.version : v \in VersionsOf(versions, document_id)}) + 1

\* A 2xx body is a new capture unless its hash is the latest version's.
IsNewContent(versions, document_id, hash) ==
    LET latest == get_latest_version(versions, document_id) IN
    ~latest.some \/ latest.value.content_hash # hash

TrackUrl(u) ==
    /\ crawl_urls' = track_url(crawl_urls, NewCrawlUrl(u)).urls
    /\ crawl_urls' # crawl_urls
    /\ UNCHANGED <<rlVars, docVars, fw, analysisVars,
                   extVars>>

\* next_pending: the worker takes a URL it sees pending.
FetchPick(w) ==
    /\ fw[w].pc = "idle"
    /\ \E r \in crawl_urls :
         /\ r.status = "pending"
         /\ fw' = [fw EXCEPT ![w] = [pc |-> "picked", url |-> r.url]]
    /\ UNCHANGED <<rlVars, docVars, crawl_urls, analysisVars,
                   extVars>>

\* The worker claims the URL and goes on to fetch it.
FetchMark(w) ==
    /\ fw[w].pc = "picked"
    /\ crawl_urls' = mark_fetching(crawl_urls, fw[w].url)
    /\ fw' = [fw EXCEPT ![w].pc = "fetching"]
    /\ UNCHANGED <<rlVars, docVars, analysisVars,
                   extVars>>

\* The response arrives: 304 and an unchanged body skip, a new body is
\* appended as the next version, an error goes to mark_failed.
FetchComplete(w, resp) ==
    /\ fw[w].pc = "fetching"
    /\ LET url == fw[w].url
           doc == DocOf(url)
           added == add_version(document_versions, next_version_id, doc,
                        [id |-> NextVersionNumber(document_versions, doc),
                         content_hash |-> resp.hash])
       IN
       IF resp.status = 200 /\ IsNewContent(document_versions, doc, resp.hash)
       THEN /\ next_version_id <= MaxVersionId
            /\ documents' = IF \E d \in documents : d.id = doc THEN documents
                            ELSE save(documents, [id |-> doc, status |-> "pending"])
            /\ document_versions' = added.versions
            /\ next_version_id' = IF added.ok THEN next_version_id + 1
                                  ELSE next_version_id
            /\ crawl_urls' = mark_fetched(crawl_urls, url, resp.hash, doc)
       ELSE /\ crawl_urls' = IF resp.status \in {200, 304}
                             THEN mark_skipped(crawl_urls, url)
                             ELSE mark_failed(crawl_urls, url)
            /\ UNCHANGED docVars
    /\ fw' = [fw EXCEPT ![w] = [pc |-> "idle", url |-> NULL]]
    /\ UNCHANGED <<rlVars, analysisVars,
                   extVars>>

\* The explicit re-enqueue of a URL that reached a terminal status.
Requeue(u) ==
    /\ \E r \in get_url(crawl_urls, u) :
         /\ r.status \in {"failed", "fetched", "skipped"}
         /\ crawl_urls' = update_url(crawl_urls,
                              [r EXCEPT !.status = "pending", !.retry_count = 0])
    /\ UNCHANGED <<rlVars, docVars, fw, analysisVars,
                   extVars>>

\* add_version called on the repository with the caller's version number.
AddVersion(d, n, h) ==
    /\ next_version_id <= MaxVersionId
    /\ LET added == add_version(document_versions, next_version_id, d,
                                [id |-> n, content_hash |-> h]) IN
         /\ added.ok
         /\ document_versions' = added.versions
    /\ next_version_id' = next_version_id + 1
    /\ UNCHANGED <<rlVars, documents, crawlVars, analysisVars,
                   extVars>>

\* delete called on the repository.
Delete(d) ==
    /\ LET gone == delete(documents, document_versions, d) IN
         /\ gone.deleted
         /\ documents' = gone.documents
         /\ document_versions' = gone.versions
    /\ UNCHANGED <<rlVars, next_version_id, crawlVars, analysisVars,
                   extVars>>

InitCrawl ==
    /\ documents = {}
    /\ document_versions = {}
    /\ next_version_id = 1
    /\ crawl_urls = {}
    /\ fw = [w \in FetchWorkers |-> [pc |-> "idle", url |-> NULL]]
    /\ analysis_results = {}
    /\ aw = [w \in AnalysisWorkers |-> [pc |-> "idle", key |-> NoKey]]
    /\ hours = 0
    /\ RateLimiterNew(RateLimitConfig_default)
    /\ CallersIdle

NextCrawl ==
    \/ \E u \in Urls : TrackUrl(u)
    \/ \E w \in FetchWorkers : FetchPick(w)
    \/ \E w \in FetchWorkers : FetchMark(w)
    \/ \E w \in FetchWorkers, resp \in Responses : FetchComplete(w, resp)
    \/ \E u \in Urls : Requeue(u)
    \/ \E d \in CrawlDocIds, n \in 1..MaxVersionId, h \in Hashes : AddVersion(d, n, h)
    \/ \E d \in CrawlDocIds : Delete(d)

SpecCrawl == InitCrawl /\ [][NextCrawl]_vars

\* HttpClient::track_url of a caller that looks at what it returns: without
\* a crawl repository nothing is added and the answer is false.
TrackUrlObserved(u) ==
    /\ LET tracked == IF crawl_repo THEN track_url(crawl_urls, NewCrawlUrl(u))
                      ELSE [inserted |-> FALSE, urls |-> crawl_urls]
       IN /\ crawl_urls' = tracked.urls
          /\ returned' = Some([url |-> u, inserted |-> tracked.inserted])
    /\ UNCHANGED <<rlVars, docVars, fw, analysisVars,
                   success_run, http, backendVars, moreVars>>

\* The frontier of a crawler whose client has a crawl repository.
InitFrontier ==
    /\ documents = {}
    /\ document_versions = {}
    /\ next_version_id = 1
    /\ crawl_urls = {}
    /\ fw = [w \in FetchWorkers |-> [pc |-> "idle", url |-> NULL]]
    /\ analysis_results = {}
    /\ aw = [w \in AnalysisWorkers |-> [pc |-> "idle", key |-> NoKey]]
    /\ hours = 0
    /\ RateLimiterNew(RateLimitConfig_default)
    /\ LimiterCallersIdle
    /\ crawl_repo = TRUE
    /\ crawl_requests = <<>>
    /\ HistoryEmpty
    /\ PagesEmpty
    /\ NothingPersisted

\* The URLs the crawler discovers.
FrontierUrls == {"u1", "u2"}

\* URLs are discovered again and again while the workers fetch them.
NextFrontier ==
    \/ \E u \in FrontierUrls : TrackUrlObserved(u)
    \/ \E w \in FetchWorkers : FetchPick(w)
    \/ \E w \in FetchWorkers : FetchMark(w)
    \/ \E w \in FetchWorkers, resp \in Responses : FetchComplete(w, resp)

SpecFrontier == InitFrontier /\ [][NextFrontier]_vars

(***************************************************************************)
(* Rate limiter: the specification.                                        *)
(***************************************************************************)
InitRL ==
    /\ \E cfg \in Configs : RateLimiterNew(cfg)
    /\ CallersIdle
    /\ documents = {}
    /\ document_versions = {}
    /\ next_version_id = 1
    /\ crawl_urls = {}
    /\ fw = [w \in FetchWorkers |-> [pc |-> "idle", url |-> NULL]]
    /\ analysis_results = {}
    /\ aw = [w \in AnalysisWorkers |-> [pc |-> "idle", key |-> NoKey]]
    /\ hours = 0

\* Clients that share the limiter acquire concurrently, while the reports
\* that change a domain's delay come in.
NextRL ==
    \/ \E c \in RLClients, u \in RLUrls : AcquireRead(c, u)
    \/ \E c \in RLClients : AcquireMark(c)
    \/ \E c \in RLClients : WakeTick(rc[c].wake)
    \/ IdleTick
    \/ \E d \in RLDomains : ReportSuccess(d)
    \/ \E d \in RLDomains : ReportRateLimit(d)
    \/ \E d \in RLDomains : ReportServerError(d)

SpecRL == InitRL /\ [][NextRL]_vars

\* One caller drives the limiter of one site through acquire and every report.
SoleClient == "c1"
SiteUrls == {u \in RLUrls : u.host \in {NULL, "a.gov"}}
UrlsOf(d) == {u \in RLUrls : u.host = d}

NextBackoff ==
    \/ \E u \in SiteUrls : AcquireReady(SoleClient, u)
    \/ IdleTick
    \/ \E d \in RLDomains : ReportSuccess(d)
    \/ \E d \in RLDomains : ReportRateLimit(d)
    \/ \E d \in RLDomains : \E u \in UrlsOf(d), r \in BOOLEAN :
          \* the 403s stop coming once the ring holds a threshold of them
          /\ domains[d].some
          /\ Len(domains[d].value.recent_403s) < RATE_LIMIT_403_THRESHOLD
          /\ Report403(d, u, r)
    \/ \E d \in RLDomains : ReportServerError(d)

SpecBackoff == InitRL /\ [][NextBackoff]_vars

\* The stores and their workers, empty and idle.
StoresIdle ==
    /\ documents = {}
    /\ document_versions = {}
    /\ next_version_id = 1
    /\ crawl_urls = {}
    /\ fw = [w \in FetchWorkers |-> [pc |-> "idle", url |-> NULL]]
    /\ analysis_results = {}
    /\ aw = [w \in AnalysisWorkers |-> [pc |-> "idle", key |-> NoKey]]
    /\ hours = 0

\* The site the caller crawls.
Site == "a.gov"

\* A limiter that has let the first request to the site through, at instant 0.
AfterFirstRequest(cfg) ==
    /\ config = cfg
    /\ domains = [d \in RLDomains |->
                    IF d = Site
                    THEN Some([DomainState_new(cfg.base_delay) EXCEPT
                                  !.last_request = Some(0), !.total_requests = 1])
                    ELSE None]
    /\ now = 0
    /\ rc = [c \in RLClients |-> [pc |-> "idle", domain |-> NULL, wake |-> 0]]
    /\ server_errors = 0

InitSite ==
    /\ \E cfg \in Configs : AfterFirstRequest(cfg)
    /\ CallersIdle
    /\ StoresIdle

\* A success between the 403s of the site.
SuccessBetween(d) ==
    /\ domains[d].some
    /\ domains[d].value.consecutive_successes < MaxSuccessesBetween
    /\ ReportSuccess(d)

\* One caller gets 403s on the URLs of the site and looks at what report_403
\* returns, while successes and rate limits come in and time goes by.
Next403 ==
    \/ HalfWindowTick
    \/ \E d \in RLDomains : SuccessBetween(d)
    \/ \E d \in RLDomains : ReportRateLimit(d)
    \/ \E d \in RLDomains : \E u \in UrlsOf(d), r \in BOOLEAN :
          Report403Observed(d, u, r)

Spec403 == InitSite /\ [][Next403]_vars

\* The site has answered 403 to two different URLs, at instant 0, after the
\* first request.
AfterTwo403s(cfg) ==
    /\ config = cfg
    /\ domains = [d \in RLDomains |->
                    IF d = Site
                    THEN Some([DomainState_new(cfg.base_delay) EXCEPT
                                  !.last_request = Some(0), !.total_requests = 1,
                                  !.recent_403s =
                                      <<[time |-> 0, url |-> [host |-> Site, path |-> "/1"]],
                                        [time |-> 0, url |-> [host |-> Site, path |-> "/2"]]>>])
                    ELSE None]
    /\ now = 0
    /\ rc = [c \in RLClients |-> [pc |-> "idle", domain |-> NULL, wake |-> 0]]
    /\ server_errors = 0

InitMasked ==
    /\ \E cfg \in Configs : AfterTwo403s(cfg)
    /\ CallersIdle
    /\ StoresIdle

\* Two 403s are in the ring; more 403s, successes and rate limits follow.
SpecMasked == InitMasked /\ [][Next403]_vars

\* The site answers 429 again and again, with at most a success in between.
NextGrowth ==
    \/ \E u \in SiteUrls : AcquireReady(SoleClient, u)
    \/ HalfWindowTick
    \/ \E d \in RLDomains : SuccessBetween(d)
    \/ \E d \in RLDomains : ReportRateLimitWithin(d, MaxRateLimits)

SpecGrowth == InitSite /\ [][NextGrowth]_vars

\* Every report that changes the delay of the site, in any order and as
\* often as the site gives cause: rate limits up to the cap, recoveries down
\* to the base delay, server errors, 403s that carry Retry-After.
NextDelay ==
    \/ \E d \in RLDomains : ReportSuccess(d)
    \/ \E d \in RLDomains : ReportRateLimitWithin(d, MaxRateLimits)
    \/ \E d \in RLDomains : \E u \in UrlsOf(d) : Report403(d, u, TRUE)
    \/ \E d \in RLDomains : ReportServerError(d)

SpecDelay == InitSite /\ [][NextDelay]_vars

\* The site answers with successes, 403s, rate limits and server errors.
NextServerErrors ==
    \/ ReportSuccess(Site)
    \/ ReportRateLimit(Site)
    \/ \E u \in UrlsOf(Site), r \in BOOLEAN : Report403(Site, u, r)
    \/ ReportServerError(Site)

SpecServerErrors == InitSite /\ [][NextServerErrors]_vars

(***************************************************************************)
(* The report handlers over the map of domains: `if let Some(state) =      *)
(* domains.get_mut(domain)`, and nothing for a domain the map lacks.       *)
(***************************************************************************)
RateLimiter_report_success(cfg, doms, d) ==
    IF doms[d].some
    THEN [doms EXCEPT ![d] = Some(report_success(cfg, @.value))]
    ELSE doms

RateLimiter_report_rate_limit(cfg, doms, d) ==
    IF doms[d].some
    THEN [doms EXCEPT ![d] = Some(report_rate_limit(cfg, @.value))]
    ELSE doms

RateLimiter_report_server_error(cfg, doms, d) ==
    IF doms[d].some
    THEN [doms EXCEPT ![d] = Some(report_server_error(cfg, @.value))]
    ELSE doms

\* A report_403 that believes Retry-After on a domain it has no record of.
RateLimiter_report_403_trusting_header(cfg, doms, d, url, has_retry_after, t) ==
    IF doms[d].some
    THEN LET reported == report_403(cfg, doms[d].value, url, has_retry_after, t) IN
         [domains |-> [doms EXCEPT ![d] = Some(reported.state)],
          detected |-> reported.detected]
    ELSE [domains |-> doms, detected |-> has_retry_after]

RateLimiter_report_403(cfg, doms, d, url, has_retry_after, t) ==
    IF doms[d].some
    THEN LET reported == report_403(cfg, doms[d].value, url, has_retry_after, t) IN
         [domains |-> [doms EXCEPT ![d] = Some(reported.state)],
          detected |-> reported.detected]
    ELSE [domains |-> doms, detected |-> FALSE]

ReportKinds == {"success", "rate_limit", "403", "server_error"}

\* What a report of the kind does to the map and what it returns (only
\* report_403 returns something).
Reported(kind, cfg, doms, d, url, has_retry_after, t) ==
    CASE kind = "success" ->
           [domains |-> RateLimiter_report_success(cfg, doms, d), detected |-> FALSE]
      [] kind = "rate_limit" ->
           [domains |-> RateLimiter_report_rate_limit(cfg, doms, d), detected |-> FALSE]
      [] kind = "server_error" ->
           [domains |-> RateLimiter_report_server_error(cfg, doms, d), detected |-> FALSE]
      [] kind = "403" ->
           RateLimiter_report_403(cfg, doms, d, url, has_retry_after, t)

\* The counters of a known domain leave room for the report.
RoomFor(kind, d, url, has_retry_after) ==
    domains[d].some =>
       CASE kind = "success" -> domains[d].value.consecutive_successes < MaxSuccesses
         [] kind = "rate_limit" -> domains[d].value.rate_limit_hits < MaxHits
         [] kind = "server_error" -> server_errors < MaxServerErrors
         [] kind = "403" ->
              /\ Len(domains[d].value.recent_403s) < MaxRing
              /\ report_403(config, domains[d].value, url, has_retry_after, now).detected
                    => domains[d].value.rate_limit_hits < MaxHits

\* A caller reports an outcome for a domain, whether or not acquire was
\* ever called for it, and keeps what the report returned.
ReportAny(kind, d, url, has_retry_after) ==
    /\ RoomFor(kind, d, url, has_retry_after)
    /\ LET reported == Reported(kind, config, domains, d, url, has_retry_after, now) IN
         /\ domains' = reported.domains
         /\ returned' = Some([kind |-> kind, domain |-> d,
                              has_retry_after |-> has_retry_after,
                              known |-> domains[d].some,
                              detected |-> reported.detected])
    /\ server_errors' = IF kind = "server_error" /\ domains[d].some
                        THEN server_errors + 1 ELSE server_errors
    /\ UNCHANGED <<config, now, rc, success_run, http, backendVars, moreVars,
                   docVars, crawlVars, analysisVars>>

\* The URL of a domain that the reports are about.
FirstUrlOf(d) == {u \in UrlsOf(d) : u.path = "/1"}

\* Requests go to the site only; outcomes are reported for the site and for
\* a domain that acquire never saw.
NextUnknown ==
    \/ \E u \in SiteUrls : AcquireReady(SoleClient, u)
    \/ \E kind \in ReportKinds, d \in RLDomains : \E u \in FirstUrlOf(d), r \in BOOLEAN :
          ReportAny(kind, d, u, r)

SpecUnknown == InitRL /\ [][NextUnknown]_vars

\* The single worker is not inside acquire.
WorkerIdle == rc[SoleClient].pc = "idle"

\* A single worker: it acquires, sleeps as long as acquire tells it to,
\* makes its request and reports what came back before it acquires again.
NextWait ==
    \/ \E u \in SiteUrls : AcquireRead(SoleClient, u)
    \/ AcquireMark(SoleClient)
    \/ WakeTick(rc[SoleClient].wake)
    \/ WorkerIdle /\ RequestTick
    \/ WorkerIdle /\ \E d \in RLDomains : ReportSuccess(d)
    \/ WorkerIdle /\ \E d \in RLDomains : ReportRateLimit(d)
    \/ WorkerIdle /\ \E d \in RLDomains : ReportServerError(d)

SpecWait == InitRL /\ [][NextWait]_vars

(***************************************************************************)
(* Recovery under successes that keep coming.                              *)
(***************************************************************************)
\* A configuration with_config takes as it is: the floor above the base
\* delay.
RateLimitConfig_floor_above_base ==
    [RateLimitConfig_default EXCEPT !.min_delay = 600]

\* RateLimiter::with_config checks nothing: the configurations of the code
\* and one whose min_delay is above its base_delay.
AcceptedConfigs == Configs \cup {RateLimitConfig_floor_above_base}

InitAccepted ==
    /\ \E cfg \in AcceptedConfigs : AfterFirstRequest(cfg)
    /\ CallersIdle
    /\ StoresIdle

\* The site is rate limited and fails a bounded number of times; successes
\* come at any time.
NextRecover ==
    \/ ReportSuccess(Site)
    \/ ReportRateLimit(Site)
    \/ ReportServerError(Site)

\* From some point on only successes are reported, and they keep coming.
SpecRecover ==
    InitAccepted /\ [][NextRecover]_vars /\ WF_vars(ReportSuccess(Site))

(***************************************************************************)
(* find_ready_url: the URL of the list whose domain is ready soonest.      *)
(***************************************************************************)
\* The wait find_ready_url reads for a URL with a host.
WaitOf(doms, url, t) ==
    IF doms[url.host].some THEN time_until_ready(doms[url.host].value, t) ELSE 0

\* A scan that takes the last URL that is no slower than the best so far.
RECURSIVE scan_ready_last(_, _, _, _, _)
scan_ready_last(doms, urls, i, best, t) ==
    IF i > Len(urls) THEN best.url
    ELSE IF ~extract_domain(urls[i]).some
         THEN scan_ready_last(doms, urls, i + 1, best, t)
    ELSE LET wait == WaitOf(doms, urls[i], t) IN
         IF ~best.url.some \/ wait <= best.wait
         THEN IF wait = 0 THEN Some(urls[i])
              ELSE scan_ready_last(doms, urls, i + 1,
                                   [url |-> Some(urls[i]), wait |-> wait], t)
         ELSE scan_ready_last(doms, urls, i + 1, best, t)

\* The loop of find_ready_url from position i on, with the best URL and wait
\* found so far (no best URL: best_wait is Duration::MAX).
RECURSIVE scan_ready(_, _, _, _, _)
scan_ready(doms, urls, i, best, t) ==
    IF i > Len(urls) THEN best.url
    ELSE IF ~extract_domain(urls[i]).some
         THEN scan_ready(doms, urls, i + 1, best, t)
    ELSE LET wait == WaitOf(doms, urls[i], t) IN
         IF ~best.url.some \/ wait < best.wait
         THEN IF wait = 0 THEN Some(urls[i])
              ELSE scan_ready(doms, urls, i + 1,
                              [url |-> Some(urls[i]), wait |-> wait], t)
         ELSE scan_ready(doms, urls, i + 1, best, t)

\* RateLimiter::find_ready_url that takes the last of the URLs that wait least.
find_ready_url_last(doms, urls, t) ==
    scan_ready_last(doms, urls, 1, [url |-> None, wait |-> 0], t)

\* RateLimiter::find_ready_url at instant t.
find_ready_url(doms, urls, t) ==
    scan_ready(doms, urls, 1, [url |-> None, wait |-> 0], t)

\* The lists a caller asks about: a URL of each site and a string that is
\* no URL, in any order and number.
ListUrls == {u \in RLUrls : u.path \in {"/1", "not a url"}}
UrlLists == UNION {[1..n -> ListUrls] : n \in 0..MaxListLen}

FindReadyUrl(urls) ==
    /\ returned' = Some([urls |-> urls, found |-> find_ready_url(domains, urls, now)])
    /\ UNCHANGED <<rlVars, docVars, crawlVars, analysisVars, http,
                   success_run, backendVars, moreVars>>

\* A caller makes requests to two sites, one after the other, and asks which URL
\* of a list to fetch next.
NextReady ==
    \/ \E u \in ListUrls : AcquireReady(SoleClient, u)
    \/ RequestTick
    \/ \E urls \in UrlLists : FindReadyUrl(urls)

SpecReady == InitRL /\ [][NextReady]_vars

\* The rate_limit_state table a run left behind: the site in backoff at
\* 2000 ms after two rate limits, another domain at 500 ms out of backoff.
SavedRows ==
    {[domain |-> Site, current_delay_ms |-> 2000, in_backoff |-> TRUE,
      total_requests |-> 3, rate_limit_hits |-> 2],
     [domain |-> "b.gov", current_delay_ms |-> 500, in_backoff |-> FALSE,
      total_requests |-> 1, rate_limit_hits |-> 0]}

\* A limiter that starts from the saved state.
InitRecovery ==
    /\ \E cfg \in Configs :
          /\ config = cfg
          /\ domains = load_rate_limit_state(cfg, SavedRows)
    /\ now = 0
    /\ rc = [c \in RLClients |-> [pc |-> "idle", domain |-> NULL, wake |-> 0]]
    /\ server_errors = 0
    /\ CallersIdle
    /\ StoresIdle

\* From then on every request succeeds.
NextRecovery ==
    \/ IdleTick
    \/ \E d \in RLDomains : ReportSuccessCounted(d)

SpecRecovery == InitRecovery /\ [][NextRecovery]_vars

(***************************************************************************)
(* Restart: the limiter saves its state and a new process loads it.        *)
(***************************************************************************)
\* The limiter keeps its delays finer than the milliseconds of the table:
\* here in microseconds.
MicrosPerMilli == 1000

InMicros(cfg) ==
    [cfg EXCEPT !.base_delay = from_millis(@, MicrosPerMilli),
                !.min_delay = from_millis(@, MicrosPerMilli),
                !.max_delay = from_millis(@, MicrosPerMilli)]

\* The rows of the rate_limit_state table, and the table of a set of rows.
RowsOf(table) ==
    {[domain |-> d,
      current_delay_ms |-> table[d].value.current_delay_ms,
      in_backoff |-> table[d].value.in_backoff,
      total_requests |-> table[d].value.total_requests,
      rate_limit_hits |-> table[d].value.rate_limit_hits] :
        d \in {e \in RLDomains : table[e].some}}

TableOf(rows) ==
    [d \in RLDomains |->
        IF \E row \in rows : row.domain = d
        THEN LET row == CHOOSE r \in rows : r.domain = d IN
             Some([current_delay_ms |-> row.current_delay_ms,
                   in_backoff |-> row.in_backoff,
                   total_requests |-> row.total_requests,
                   rate_limit_hits |-> row.rate_limit_hits])
        ELSE None]

\* A domain whose state is worth a row: in backoff or above the base delay.
NonDefault(cfg, state) == state.in_backoff \/ state.current_delay > cfg.base_delay

\* save_rate_limit_state: INSERT OR REPLACE the row of every domain worth
\* one, then DELETE the rows out of backoff at or below the base delay.
save_rate_limit_state(cfg, doms, table, per_ms) ==
    LET written ==
            [d \in RLDomains |->
                IF doms[d].some /\ NonDefault(cfg, doms[d].value)
                THEN Some([current_delay_ms |-> as_millis(doms[d].value.current_delay, per_ms),
                           in_backoff |-> doms[d].value.in_backoff,
                           total_requests |-> doms[d].value.total_requests,
                           rate_limit_hits |-> doms[d].value.rate_limit_hits])
                ELSE table[d]]
    IN [d \in RLDomains |->
           IF /\ written[d].some
              /\ ~written[d].value.in_backoff
              /\ written[d].value.current_delay_ms <= as_millis(cfg.base_delay, per_ms)
           THEN None ELSE written[d]]

\* The tables an earlier run can have left behind.
LeftTables == {[d \in RLDomains |-> None], TableOf(SavedRows)}

\* The process saves while it goes on.
SaveRateLimitState ==
    /\ rate_limit_state' =
          save_rate_limit_state(config, domains, rate_limit_state, MicrosPerMilli)
    /\ UNCHANGED <<rlVars, docVars, crawlVars, analysisVars, callerVars, backendVars,
                   logVars, historyVars, pageVars>>

\* The process saves and ends; the next one builds a limiter with the same
\* configuration and loads the table.
Restart ==
    /\ rc[SoleClient].pc = "idle"
    /\ rate_limit_state' =
          save_rate_limit_state(config, domains, rate_limit_state, MicrosPerMilli)
    /\ domains' = load_rate_limit_state_in(config, RowsOf(rate_limit_state'),
                                           MicrosPerMilli)
    /\ UNCHANGED <<config, now, rc, server_errors, docVars, crawlVars, analysisVars,
                   callerVars, backendVars, logVars, historyVars, pageVars>>

InitRestart ==
    /\ \E cfg \in Configs, table \in LeftTables :
          /\ config = InMicros(cfg)
          /\ rate_limit_state = table
          /\ domains = load_rate_limit_state_in(config, RowsOf(table), MicrosPerMilli)
    /\ now = 0
    /\ rc = [c \in RLClients |-> [pc |-> "idle", domain |-> NULL, wake |-> 0]]
    /\ server_errors = 0
    /\ LimiterCallersIdle
    /\ NoRequestLog
    /\ HistoryEmpty
    /\ PagesEmpty
    /\ StoresIdle

NextRestart ==
    \/ \E u \in SiteUrls : AcquireReady(SoleClient, u)
    \/ ReportSuccess(Site)
    \/ ReportRateLimit(Site)
    \/ ReportServerError(Site)
    \/ SaveRateLimitState
    \/ Restart

SpecRestart == InitRestart /\ [][NextRestart]_vars

\* save_domain_state: INSERT OR REPLACE the row of the domain when the
\* limiter knows it and it is in backoff or above the base delay; nothing
\* otherwise.
save_domain_state(cfg, doms, table, d, per_ms) ==
    IF doms[d].some /\ NonDefault(cfg, doms[d].value)
    THEN [table EXCEPT ![d] =
            Some([current_delay_ms |-> as_millis(doms[d].value.current_delay, per_ms),
                  in_backoff |-> doms[d].value.in_backoff,
                  total_requests |-> doms[d].value.total_requests,
                  rate_limit_hits |-> doms[d].value.rate_limit_hits])]
    ELSE table

\* The caller saves one domain and keeps what the limiter held of it then.
SaveDomainState(d) ==
    /\ rate_limit_state' =
          save_domain_state(config, domains, rate_limit_state, d, MicrosPerMilli)
    /\ returned' = Some([domain |-> d, memory |-> domains[d]])
    /\ UNCHANGED <<rlVars, docVars, crawlVars, analysisVars, success_run, http,
                   backendVars, logVars, historyVars, pageVars>>

\* The site is crawled and its domain saved after the events; only
\* save_domain_state writes the table.
NextSaveDomain ==
    \/ \E u \in SiteUrls : AcquireReady(SoleClient, u)
    \/ ReportSuccess(Site)
    \/ ReportRateLimit(Site)
    \/ ReportServerError(Site)
    \/ \E d \in RLDomains : SaveDomainState(d)

SpecSaveDomain == InitRestart /\ [][NextSaveDomain]_vars

(***************************************************************************)
(* The SQLite backend of the limiter, shared by the processes of a crawl.  *)
(***************************************************************************)
\* RateLimitResult<T>
Ok(v) == [ok |-> TRUE, value |-> v]
Err(e) == [ok |-> FALSE, error |-> e]

\* What the store does to the statements of one acquire: it runs them all,
\* or it fails the named one (a lock held past the busy timeout, a full or
\* failing disk).
StoreConditions ==
    {"healthy", "BEGIN IMMEDIATE", "SELECT", "INSERT", "UPDATE", "COMMIT"}

\* The row INSERT INTO rate_limit_domains (domain, current_delay_ms) makes.
DomainRateState_new(base_delay_ms) ==
    [current_delay_ms |-> base_delay_ms, last_request_at |-> None,
     consecutive_successes |-> 0, in_backoff |-> FALSE,
     total_requests |-> 0, rate_limit_hits |-> 0]

\* DomainRateState::time_until_ready at wall-clock instant now_ms.
DomainRateState_time_until_ready(s, now_ms) ==
    IF ~s.last_request_at.some THEN 0
    ELSE LET elapsed == now_ms - s.last_request_at.value IN
         IF elapsed >= s.current_delay_ms THEN 0
         ELSE s.current_delay_ms - elapsed

\* SqliteRateLimitBackend::acquire: the result it returns and the tables
\* the store can hold afterwards.  now_ms is the clock read before BEGIN
\* IMMEDIATE, read_ms the clock time_until_ready reads inside the
\* transaction.  A failed statement inside the transaction is rolled back;
\* after a failed COMMIT the transaction is either lost or still open on the
\* connection.
sqlite_acquire_at(table, domain, base_delay_ms, now_ms, read_ms, condition) ==
    LET failed == [tables |-> {table}, result |-> Err("Database")]
        state == table[domain]
        wait_time == IF state.some
                     THEN DomainRateState_time_until_ready(state.value, read_ms)
                     ELSE 0
        row == IF state.some THEN state.value
               ELSE DomainRateState_new(base_delay_ms)
        request_time == now_ms + wait_time
        written == [table EXCEPT ![domain] =
                       Some([row EXCEPT !.last_request_at = Some(request_time),
                                        !.total_requests = @ + 1])]
    IN IF condition = "BEGIN IMMEDIATE" THEN failed
       ELSE IF condition = "SELECT" THEN failed
       ELSE IF condition = "INSERT" /\ ~state.some THEN failed
       ELSE IF condition = "UPDATE" THEN failed
       ELSE IF condition = "COMMIT"
            THEN [tables |-> {table, written}, result |-> Err("Database")]
       ELSE [tables |-> {written}, result |-> Ok(wait_time)]

\* acquire of a process that nothing holds up between its reading of the
\* clock and its transaction.
sqlite_acquire(table, domain, base_delay_ms, now_ms, condition) ==
    sqlite_acquire_at(table, domain, base_delay_ms, now_ms, now_ms, condition)

BackendRequestsOf(d) ==
    IF rate_limit_domains[d].some
    THEN rate_limit_domains[d].value.total_requests ELSE 0

\* A process calls the backend's acquire for a domain.
BackendAcquire(c, domain, condition) ==
    /\ BackendRequestsOf(domain) < MaxRequests
    /\ LET r == sqlite_acquire(rate_limit_domains, domain, config.base_delay,
                               now, condition)
       IN /\ rate_limit_domains' \in r.tables
          /\ backend_result' = [backend_result EXCEPT ![c] = Some(r.result)]
    /\ UNCHANGED <<config, domains, now, rc, server_errors, backend_call, rate_limit_403s,
                   docVars, crawlVars, analysisVars, callerVars, moreVars>>

\* Callers acquire from the limiter in memory and from the SQLite backend,
\* whatever the state of the store.
NextAcquire ==
    \/ \E u \in RLUrls : AcquireReady(SoleClient, u)
    \/ IdleTick
    \/ \E c \in RLClients, d \in RLDomains, s \in StoreConditions :
          BackendAcquire(c, d, s)

SpecAcquire == InitRL /\ [][NextAcquire]_vars

\* acquire of a process, first step: it takes its connection, reads the
\* clock and asks for the write lock of the database.
BackendAcquireBegin(c, domain) ==
    /\ ~backend_call[c].some
    /\ BackendRequestsOf(domain)
          + Cardinality({p \in RLClients : backend_call[p].some
                                            /\ backend_call[p].value.domain = domain})
          < MaxRequests
    /\ backend_call' = [backend_call EXCEPT ![c] =
                           Some([domain |-> domain, now_ms |-> now])]
    /\ UNCHANGED <<config, domains, now, rc, server_errors,
                   rate_limit_domains, backend_result, rate_limit_403s,
                   docVars, crawlVars, analysisVars, callerVars, moreVars>>

\* acquire of a process, second step: once it has the lock it runs its
\* transaction, alone in the database, and returns.
BackendAcquireTransact(c, condition) ==
    /\ backend_call[c].some
    /\ LET call == backend_call[c].value
           r == sqlite_acquire_at(rate_limit_domains, call.domain, config.base_delay,
                                  call.now_ms, now, condition)
       IN /\ rate_limit_domains' \in r.tables
          /\ backend_result' = [backend_result EXCEPT ![c] = Some(r.result)]
    /\ backend_call' = [backend_call EXCEPT ![c] = None]
    /\ UNCHANGED <<config, domains, now, rc, server_errors, rate_limit_403s,
                   docVars, crawlVars, analysisVars, callerVars, moreVars>>

\* The processes of a crawl acquire from the one database while time goes by.
NextBackendRace ==
    \/ \E c \in RLClients : BackendAcquireBegin(c, Site)
    \/ \E c \in RLClients, s \in StoreConditions : BackendAcquireTransact(c, s)
    \/ RequestTick

SpecBackendRace == InitRL /\ [][NextBackendRace]_vars

\* SqliteRateLimitBackend::record_403 at wall-clock instant now_ms.
record_403(table, domain, url, now_ms) ==
    Append(table, [domain |-> domain, url |-> url, timestamp_ms |-> now_ms])

\* SqliteRateLimitBackend::get_403_count at wall-clock instant now_ms:
\* COUNT(DISTINCT url) ... WHERE domain = ? AND timestamp_ms > cutoff.
get_403_count(table, domain, window_ms, now_ms) ==
    LET cutoff_ms == now_ms - window_ms IN
    Cardinality({table[i].url : i \in {j \in 1..Len(table) :
                                          /\ table[j].domain = domain
                                          /\ table[j].timestamp_ms > cutoff_ms}})

\* A 403 of the site reaches both trackers at the same instant: the ring
\* of the limiter in memory and the table of the backend.
Track403(d, url) ==
    /\ domains[d].some
    /\ Len(rate_limit_403s) < MaxRing
    /\ LET added == add_403(domains[d].value, url, now)
           recorded == record_403(rate_limit_403s, d, url, now)
       IN /\ domains' = [domains EXCEPT ![d] = Some(added.state)]
          /\ rate_limit_403s' = recorded
          /\ returned' = Some([memory |-> added.count,
                               backend |-> get_403_count(recorded, d,
                                                         RATE_LIMIT_WINDOW, now)])
    /\ UNCHANGED <<config, now, rc, server_errors, success_run, http,
                   rate_limit_domains, backend_result, backend_call, moreVars,
                   docVars, crawlVars, analysisVars>>

\* 403s come in on the URLs of the site, half a window or more apart or at
\* the same instant.
NextTrackers ==
    \/ HalfWindowTick
    \/ \E d \in RLDomains : \E u \in UrlsOf(d) : Track403(d, u)

SpecTrackers == InitSite /\ [][NextTrackers]_vars

(***************************************************************************)
(* HttpClient::get and HttpClient::head, the callers of the limiter.       *)
(***************************************************************************)
HttpMethods == {"GET", "HEAD"}

\* The status codes a server answers with, some of every class.
HttpStatuses == {200, 300, 304, 403, 404, 429, 500, 503}

\* The validators a caller has cached for a URL, if any.
ETags == {None, Some("etag-1")}
LastModifieds == {None, Some("Tue, 01 Oct 2024")}

\* StatusCode::is_success
is_success(status_code) == status_code >= 200 /\ status_code < 300

\* The report_* call that get and head make for a status code.
ReportFor(status_code) ==
    IF status_code = 429 \/ status_code = 503 THEN "report_rate_limit"
    ELSE IF status_code = 403 THEN "report_403"
    ELSE IF status_code >= 500 THEN "report_server_error"
    ELSE IF is_success(status_code) \/ status_code = 304 THEN "report_success"
    ELSE "none"

\* The conditional headers get and head put on the request.
ConditionalHeaders(etag, last_modified) ==
    [h \in (IF etag.some THEN {"If-None-Match"} ELSE {})
             \cup (IF last_modified.some THEN {"If-Modified-Since"} ELSE {}) |->
        IF h = "If-None-Match" THEN etag.value ELSE last_modified.value]

\* A was_conditional that wants both validators.
was_conditional_both(etag, last_modified) == etag.some /\ last_modified.some

\* was_conditional = etag.is_some() || last_modified.is_some()
was_conditional(etag, last_modified) == etag.some \/ last_modified.some

\* CrawlRequest::new with the headers and was_conditional filled in, as
\* get and head prepare it before sending.
CrawlRequest_new(method, url, etag, last_modified) ==
    [method |-> method, url |-> url,
     request_headers |-> ConditionalHeaders(etag, last_modified),
     was_conditional |-> was_conditional(etag, last_modified),
     response_status |-> None, was_not_modified |-> FALSE]

\* The request log once the response is in.
CrawlRequest_responded(request_log, status_code) ==
    [request_log EXCEPT !.response_status = Some(status_code),
                        !.was_not_modified = (status_code = 304)]

\* CrawlRepository::log_request: one more row in crawl_requests.
log_request(rows, request_log) == Append(rows, request_log)

\* get or head begins: it awaits acquire, which sleeps until the domain is
\* ready and marks the request started; for a string that is no URL acquire
\* hands back None at once.
HttpAcquire(c, method, url, etag, last_modified) ==
    /\ http[c].pc = "idle"
    /\ LET domain == extract_domain(url) IN
       /\ IF ~domain.some
          THEN UNCHANGED <<domains, now>>
          ELSE /\ TotalRequests < MaxRequests
               /\ LET known == domains[domain.value].some
                      wait_time == IF known
                                   THEN time_until_ready(domains[domain.value].value, now)
                                   ELSE 0
                      state == IF known THEN domains[domain.value].value
                               ELSE DomainState_new(config.base_delay)
                  IN /\ now' = now + wait_time
                     /\ domains' = [domains EXCEPT ![domain.value] =
                            Some([state EXCEPT !.last_request = Some(now'),
                                               !.total_requests = @ + 1])]
       /\ http' = [http EXCEPT ![c] =
              [NoRequest EXCEPT !.pc = "acquired", !.method = method,
                                !.url = url, !.domain = domain,
                                !.etag = etag, !.last_modified = last_modified]]
    /\ UNCHANGED <<config, rc, server_errors, returned, success_run, backendVars,
                   moreVars, docVars, crawlVars, analysisVars>>

\* The request and its log entry are prepared and request.send() is called.
HttpSend(c) ==
    /\ http[c].pc = "acquired"
    /\ http' = [http EXCEPT ![c].pc = "sent",
                   ![c].request_log = Some(CrawlRequest_new(
                        http[c].method, http[c].url,
                        http[c].etag, http[c].last_modified))]
    /\ UNCHANGED <<config, domains, now, rc, server_errors,
                   returned, success_run, backendVars, moreVars,
                   docVars, crawlVars, analysisVars>>

\* send() fails (no URL to send to, no connection, a timeout): get and head
\* return the error at once.
HttpSendError(c) ==
    /\ http[c].pc = "sent"
    /\ http' = [http EXCEPT ![c].pc = "failed"]
    /\ UNCHANGED <<config, domains, now, rc, server_errors,
                   returned, success_run, backendVars, moreVars,
                   docVars, crawlVars, analysisVars>>

\* send() gives the server's response; a client with a crawl repository
\* logs the request.
HttpResponse(c, status_code, has_retry_after) ==
    /\ http[c].pc = "sent"
    /\ http[c].domain.some
    /\ LET request_log == CrawlRequest_responded(http[c].request_log.value,
                                                 status_code)
       IN /\ http' = [http EXCEPT ![c].pc = "responded",
                         ![c].status = status_code,
                         ![c].has_retry_after = has_retry_after,
                         ![c].request_log = Some(request_log),
                         ![c].logged = IF crawl_repo THEN @ + 1 ELSE @]
          /\ crawl_requests' = IF crawl_repo
                               THEN log_request(crawl_requests, request_log)
                               ELSE crawl_requests
    /\ UNCHANGED <<config, domains, now, rc, server_errors,
                   returned, success_run, backendVars,
                   crawl_repo, historyVars, pageVars, rate_limit_state,
                   docVars, crawlVars, analysisVars>>

\* The status is reported to the rate limiter.
HttpReport(c) ==
    /\ http[c].pc = "responded"
    /\ LET request == http[c]
           call == IF request.domain.some THEN ReportFor(request.status)
                   ELSE "none"
       IN /\ IF call = "none" \/ ~domains[request.domain.value].some
             THEN UNCHANGED domains
             ELSE LET d == request.domain.value
                      state == domains[d].value
                  IN domains' = [domains EXCEPT ![d] = Some(
                        CASE call = "report_rate_limit" ->
                               report_rate_limit(config, state)
                          [] call = "report_403" ->
                               report_403(config, state, request.url,
                                          request.has_retry_after, now).state
                          [] call = "report_server_error" ->
                               report_server_error(config, state)
                          [] call = "report_success" ->
                               report_success(config, state))]
          /\ server_errors' = IF call = "report_server_error"
                              THEN server_errors + 1 ELSE server_errors
          /\ http' = [http EXCEPT ![c].pc = "reported",
                         ![c].reports = IF call = "none" THEN @ ELSE @ + 1]
    /\ UNCHANGED <<config, now, rc, returned, success_run, backendVars, moreVars,
                   docVars, crawlVars, analysisVars>>

\* get or head returns: the response after the sleep of request_delay, or
\* the error of send().
HttpReturn(c) ==
    /\ http[c].pc \in {"reported", "failed"}
    /\ http' = [http EXCEPT ![c] = NoRequest]
    /\ UNCHANGED <<config, domains, now, rc, server_errors,
                   returned, success_run, backendVars, moreVars,
                   docVars, crawlVars, analysisVars>>

\* A client makes GET and HEAD requests one after the other, and the servers
\* answer with statuses of every class.
NextHttp ==
    \/ \E m \in HttpMethods, u \in RLUrls : HttpAcquire(SoleClient, m, u, None, None)
    \/ HttpSend(SoleClient)
    \/ HttpSendError(SoleClient)
    \/ \E s \in HttpStatuses, r \in BOOLEAN : HttpResponse(SoleClient, s, r)
    \/ HttpReport(SoleClient)
    \/ HttpReturn(SoleClient)

SpecHttp == InitRL /\ [][NextHttp]_vars

\* A crawler's client: built with a crawl repository, so that it logs.
InitRequestLog ==
    /\ \E cfg \in Configs : RateLimiterNew(cfg)
    /\ LimiterCallersIdle
    /\ crawl_repo = TRUE
    /\ crawl_requests = <<>>
    /\ HistoryEmpty
    /\ PagesEmpty
    /\ NothingPersisted
    /\ StoresIdle

\* The URLs the logging client is asked for, and the answers it gets.
LoggedUrls == {u \in SiteUrls : u.path \in {"/1", "not a url"}}
LoggedStatuses == {200, 304, 500}

\* The client fetches with and without cached validators; some requests
\* are answered and some fail on the way.
NextRequestLog ==
    \/ \E m \in HttpMethods, u \in LoggedUrls, e \in ETags, lm \in LastModifieds :
          HttpAcquire(SoleClient, m, u, e, lm)
    \/ HttpSend(SoleClient)
    \/ HttpSendError(SoleClient)
    \/ \E s \in LoggedStatuses : HttpResponse(SoleClient, s, FALSE)
    \/ HttpReport(SoleClient)
    \/ HttpReturn(SoleClient)

SpecRequestLog == InitRequestLog /\ [][NextRequestLog]_vars

(***************************************************************************)
(* Configuration history: DieselConfigHistoryRepository.                   *)
(***************************************************************************)
MAX_HISTORY_ENTRIES == 16

\* The hashes of the configurations a deployment goes through.
ConfigHashes == 1..MaxConfigs

hash_exists(rows, hash) == \E r \in rows : r.hash = hash

\* A pruning that keeps the oldest entries.
prune_oldest_kept(rows) ==
    LET ids_to_keep == {r.id : r \in {r \in rows :
            Cardinality({q \in rows : q.created_at < r.created_at})
               < MAX_HISTORY_ENTRIES}}
    IN IF ids_to_keep # {} THEN {r \in rows : r.id \in ids_to_keep} ELSE rows

\* prune_old_entries: the ids of the first MAX_HISTORY_ENTRIES rows by
\* created_at, latest first, are kept and every other row is deleted.
prune_old_entries(rows) ==
    LET ids_to_keep == {r.id : r \in {r \in rows :
            Cardinality({q \in rows : q.created_at > r.created_at})
               < MAX_HISTORY_ENTRIES}}
    IN IF ids_to_keep # {} THEN {r \in rows : r.id \in ids_to_keep} ELSE rows

\* insert_if_new at wall-clock instant t: nothing for a stored hash, else a
\* new row and then the pruning.
insert_if_new(history, hash, t) ==
    IF hash_exists(history.rows, hash)
    THEN [inserted |-> FALSE, history |-> history]
    ELSE [inserted |-> TRUE,
          history |-> [rows |-> prune_old_entries(history.rows \cup
                          {[id |-> history.next_id, hash |-> hash, created_at |-> t]}),
                       next_id |-> history.next_id + 1]]

\* The hashes presented so far (the ids count them) and the next new one.
PresentedHashes == 1..Min2(config_history.next_id, MaxConfigs)

\* A run records its effective configuration; the wall clock has moved on
\* since the run before.
InsertIfNew(hash) ==
    /\ hash_exists(config_history.rows, hash) \/ config_history.next_id <= MaxConfigs
    /\ LET r == insert_if_new(config_history, hash, utc_now + 1) IN
       /\ config_history' = r.history
       /\ utc_now' = IF r.inserted THEN utc_now + 1 ELSE utc_now
       /\ returned' = Some([hash |-> hash, inserted |-> r.inserted])
    /\ UNCHANGED <<rlVars, docVars, crawlVars, analysisVars,
                   success_run, http, backendVars,
                   logVars, pageVars, rate_limit_state>>

InitHistory ==
    /\ \E cfg \in Configs : RateLimiterNew(cfg)
    /\ CallersIdle
    /\ StoresIdle

\* Run after run records its configuration: a new one or one seen before.
NextHistory == \E h \in PresentedHashes : InsertIfNew(h)

SpecHistory == InitHistory /\ [][NextHistory]_vars

(***************************************************************************)
(* Text extraction: TextExtractor::extract_pdf.                            *)
(***************************************************************************)
\* Texts are sequences of characters: a letter, a blank, a line feed.
Chars == {"x", " "}
IsWhitespace(c) == c \in {" ", "\n"}

TextsUpTo(n) == UNION {[1..k -> Chars] : k \in 0..n}

\* text.chars().filter(|c| !c.is_whitespace()).count()
non_whitespace_chars(text) ==
    Cardinality({i \in 1..Len(text) : ~IsWhitespace(text[i])})

\* page_texts.join("\n\n")
RECURSIVE join(_)
join(texts) ==
    IF Len(texts) = 0 THEN <<>>
    ELSE IF Len(texts) = 1 THEN texts[1]
    ELSE texts[1] \o <<"\n", "\n">> \o join(Tail(texts))

\* "Use OCR if it has significantly more content (>20% more chars)"
prefers_ocr(ocr_chars, pdf_chars) == ocr_chars > pdf_chars + (pdf_chars \div 5)

\* What the tools give for a page: the text of pdftotext and of tesseract,
\* None when the tool fails or, for tesseract, when there is no image.
PageInputs(texts) ==
    [pdf : {None} \cup {Some(t) : t \in texts},
     ocr : {None} \cup {Some(t) : t \in texts}]

\* extract_pdf_simple: pdftotext and OCR over the file, the longer wins.
extract_pdf_simple(page, page_count) ==
    IF ~page.pdf.some THEN Err("ExtractionFailed")
    ELSE LET pdftotext_result == page.pdf.value
             pdf_chars == non_whitespace_chars(pdftotext_result)
         IN IF page.ocr.some
               /\ prefers_ocr(non_whitespace_chars(page.ocr.value), pdf_chars)
            THEN Ok([text |-> page.ocr.value, method |-> "TesseractOcr",
                     page_count |-> Some(page_count)])
            ELSE Ok([text |-> pdftotext_result, method |-> "PdfToText",
                     page_count |-> Some(page_count)])

\* One turn of the page loop of extract_pdf: the final text of the page and
\* whether it is the OCR text.
extract_pdf_page(page) ==
    LET pdf_text == IF page.pdf.some THEN page.pdf.value ELSE <<>>
        pdf_chars == non_whitespace_chars(pdf_text)
    IN IF page.ocr.some
          /\ prefers_ocr(non_whitespace_chars(page.ocr.value), pdf_chars)
       THEN [final_text |-> page.ocr.value, used_ocr |-> TRUE]
       ELSE [final_text |-> pdf_text, used_ocr |-> FALSE]

\* extract_pdf of a PDF whose page count pdfinfo reports.
extract_pdf(pages) ==
    LET page_count == Len(pages) IN
    IF page_count <= 1 THEN extract_pdf_simple(pages[1], page_count)
    ELSE LET chosen == [i \in 1..page_count |-> extract_pdf_page(pages[i])]
             page_texts == [i \in 1..page_count |-> chosen[i].final_text]
             used_ocr == \E i \in 1..page_count : chosen[i].used_ocr
         IN Ok([text |-> join(page_texts),
                method |-> IF used_ocr THEN "Hybrid" ELSE "PdfToText",
                page_count |-> Some(page_count)])

\* The texts on the pages of the longer PDFs.
ShortTexts == {<<>>, <<"x">>, <<"x", " ", "x">>}

\* The PDFs given to the extractor: one page with any text, or more pages
\* with short texts.
PdfJobs ==
    {<<page>> : page \in PageInputs(TextsUpTo(MaxTextLen))}
      \cup UNION {[1..n -> PageInputs(ShortTexts)] : n \in 2..MaxPages}

ExtractPdf ==
    /\ ~extract_job.result.some
    /\ extract_job' = [extract_job EXCEPT !.result = Some(extract_pdf(extract_job.pages))]
    /\ UNCHANGED <<rlVars, docVars, crawlVars, analysisVars, callerVars, backendVars,
                   logVars, historyVars, document_pages, rate_limit_state>>

InitExtract ==
    /\ RateLimiterNew(RateLimitConfig_default)
    /\ LimiterCallersIdle
    /\ NoRequestLog
    /\ HistoryEmpty
    /\ NothingPersisted
    /\ StoresIdle
    /\ document_pages = [rows |-> {}, next_id |-> 1, backend |-> "sqlite"]
    /\ \E pages \in PdfJobs : extract_job = [pages |-> pages, result |-> None]

NextExtract == ExtractPdf

SpecExtract == InitExtract /\ [][NextExtract]_vars

(***************************************************************************)
(* The document_pages table of one document version: pages.rs.             *)
(***************************************************************************)
PageOcrStatuses == {"pending", "text_extracted", "ocr_complete", "failed"}
PageNumbers == 1..2
PdfTexts == {None, Some(<<"x">>)}
OcrTexts == {None, Some(<<"x", "x">>)}

\* The DocumentPage values handed to save_page (the id is assigned by the
\* database).
DocumentPages ==
    [page_number : PageNumbers, pdf_text : PdfTexts, ocr_text : OcrTexts,
     final_text : PdfTexts \cup OcrTexts, ocr_status : PageOcrStatuses]

PageRow(id, page) ==
    [id |-> id, page_number |-> page.page_number, pdf_text |-> page.pdf_text,
     ocr_text |-> page.ocr_text, final_text |-> page.final_text,
     ocr_status |-> page.ocr_status]

\* save_page: REPLACE INTO on sqlite (the row of the page number is deleted
\* and a new one inserted under a new id), an upsert on postgres (the row
\* keeps its id, the sequence moves on).  Returns the table and the page id.
save_page(table, page) ==
    LET same == {r \in table.rows : r.page_number = page.page_number}
        id == IF table.backend = "postgres" /\ same # {}
              THEN (CHOOSE r \in same : TRUE).id
              ELSE table.next_id
    IN [table |-> [table EXCEPT !.rows = (table.rows \ same) \cup {PageRow(id, page)},
                                !.next_id = table.next_id + 1],
        id |-> id]

\* store_page_ocr_result: UPDATE ... SET ocr_text, ocr_status WHERE id.
store_page_ocr_result(table, page_id, text, error) ==
    LET status == IF error.some THEN "failed" ELSE "ocr_complete" IN
    [table EXCEPT !.rows =
        {IF r.id = page_id
         THEN [r EXCEPT !.ocr_text = text, !.ocr_status = status]
         ELSE r : r \in table.rows}]

\* The rows in page_number order.
RECURSIVE PagesInOrder(_)
PagesInOrder(rows) ==
    IF rows = {} THEN <<>>
    ELSE LET first == CHOOSE r \in rows :
                          \A q \in rows : r.page_number <= q.page_number
         IN <<first>> \o PagesInOrder(rows \ {first})

\* texts.into_iter().flatten()
RECURSIVE flatten(_)
flatten(texts) ==
    IF Len(texts) = 0 THEN <<>>
    ELSE (IF Head(texts).some THEN <<Head(texts).value>> ELSE <<>>)
            \o flatten(Tail(texts))

\* get_combined_page_text: the ocr_text column in page order, NULLs
\* dropped, joined by a blank line; None when that is empty.
get_combined_page_text(table) ==
    LET pages == PagesInOrder(table.rows)
        texts == [i \in 1..Len(pages) |-> pages[i].ocr_text]
        combined == join(flatten(texts))
    IN IF combined = <<>> THEN None ELSE Some(combined)

SavePage(page) ==
    /\ document_pages.next_id <= MaxPageSaves
    /\ document_pages' = save_page(document_pages, page).table
    /\ UNCHANGED <<rlVars, docVars, crawlVars, analysisVars, callerVars, backendVars,
                   logVars, historyVars, extract_job, rate_limit_state>>

StorePageOcrResult(page_id, text, error) ==
    /\ document_pages' = store_page_ocr_result(document_pages, page_id, text, error)
    /\ UNCHANGED <<rlVars, docVars, crawlVars, analysisVars, callerVars, backendVars,
                   logVars, historyVars, extract_job, rate_limit_state>>

GetCombinedPageText ==
    /\ returned' = Some([combined |-> get_combined_page_text(document_pages)])
    /\ UNCHANGED <<rlVars, docVars, crawlVars, analysisVars, http,
                   success_run, backendVars, moreVars>>

InitPages ==
    /\ RateLimiterNew(RateLimitConfig_default)
    /\ LimiterCallersIdle
    /\ NoRequestLog
    /\ HistoryEmpty
    /\ NothingPersisted
    /\ StoresIdle
    /\ extract_job = NoJob
    /\ \E backend \in {"sqlite", "postgres"} :
          document_pages = [rows |-> {}, next_id |-> 1, backend |-> backend]

NextPages ==
    \/ \E page \in DocumentPages : SavePage(page)
    \/ \E page_id \in 1..MaxPageSaves, text \in OcrTexts, error \in {None, Some("error")} :
          StorePageOcrResult(page_id, text, error)
    \/ GetCombinedPageText

SpecPages == InitPages /\ [][NextPages]_vars

(***************************************************************************)
(* Claims about the analysis pipeline.                                     *)
(***************************************************************************)
Holders(key) == {w \in AnalysisWorkers : aw[w].pc = "working" /\ aw[w].key = key}

\* C1: of the workers that call claim_analysis on one key, at most one holds
\* the key between its claim and its store; a worker whose claim failed lost
\* to a row that is in the table, so a claim on a key without a row succeeds.
ClaimExclusivity ==
    \A w \in AnalysisWorkers :
        /\ aw[w].pc = "working" =>
              /\ Holders(aw[w].key) = {w}
              /\ RowsOfKey(analysis_results, aw[w].key) # {}
        /\ aw[w].pc = "skipped" => RowsOfKey(analysis_results, aw[w].key) # {}

\* Two workers raced for one key: one holds it, the other was turned away by
\* the pending row.
ClaimRaceWitness ==
    \E w1, w2 \in AnalysisWorkers :
        /\ w1 # w2
        /\ aw[w1].pc = "working"
        /\ aw[w2].pc = "skipped"
        /\ aw[w1].key = aw[w2].key
        /\ \E r \in RowsOfKey(analysis_results, aw[w1].key) : r.backend = "pending"

\* C9: at most one AnalysisResult row for every (document_id, version_id, method).
OneRowPerKey ==
    \A r1, r2 \in analysis_results : KeyOf(r1) = KeyOf(r2) => r1 = r2

\* A worker claimed a key and stored a failure over its claim, while another
\* key of the table holds a row too.
StoredOverClaimWitness ==
    \E w \in AnalysisWorkers :
        /\ aw[w].pc = "stored"
        /\ \E r \in RowsOfKey(analysis_results, aw[w].key) : r.error # NULL
        /\ Cardinality(analysis_results) >= 2

HasPending(results, key) == \E r \in RowsOfKey(results, key) : r.backend = "pending"

DocOfKey(key) == {d \in documents : d.id = key.document_id}

\* What store_analysis_result must have done to a key that held a pending
\* claim: one pending row less, one row for the key, and after a success
\* the key is neither pending nor needing analysis.
StoreEffect(key, error) ==
    HasPending(analysis_results, key) =>
        /\ count_pending_analysis(analysis_results', key.method)
              = count_pending_analysis(analysis_results, key.method) - 1
        /\ Cardinality(RowsOfKey(analysis_results', key)) = 1
        /\ error = NULL =>
              /\ ~HasPending(analysis_results', key)
              /\ \A retry_hours \in RetryHoursChoices :
                    DocOfKey(key) \cap
                       get_needing_analysis(documents', document_versions',
                           analysis_results', key.method, hours', retry_hours) = {}

\* C10: store_analysis_result on a key that holds a pending claim replaces
\* the row: count_pending_analysis drops by exactly one, and a result
\* without error leaves the key neither pending nor needing analysis.
StoreReplacesPending ==
    [][/\ \A w \in AnalysisWorkers, b \in Backends, e \in Errors :
             AnalysisStore(w, b, e) => StoreEffect(aw[w].key, e)
       /\ \A d \in DocIds, m \in Methods, b \in Backends, e \in Errors :
             StoreUnclaimed(d, m, b, e) =>
                 StoreEffect(CurrentKey(document_versions, d, m), e)]_vars

\* A worker stored a success over its own claim.
StoredSuccessWitness ==
    \E w \in AnalysisWorkers :
        /\ aw[w].pc = "stored"
        /\ \E r \in RowsOfKey(analysis_results, aw[w].key) :
              r.error = NULL /\ r.backend # "pending"

(***************************************************************************)
(* Claims about the analysis queries.                                      *)
(***************************************************************************)
\* The rows of the current version of a document for a method.
CurrentRows(d, m) ==
    RowsOfKey(analysis_results, CurrentKey(document_versions, d.id, m))

\* The documents that are not failed and whose current version has, for the
\* method, no succeeded row, no pending claim and no failure younger than
\* the retry interval.
ExpectedNeeding(m, retry_hours) ==
    {d \in documents :
        /\ d.status # "failed"
        /\ CurrentKey(document_versions, d.id, m) # NoKey
        /\ \A r \in CurrentRows(d, m) :
              /\ ~(r.error = NULL /\ r.backend # "pending")
              /\ r.backend # "pending"
              /\ ~(r.error # NULL /\ hours - r.created_at < retry_hours)}

\* C11: count_needing_analysis counts exactly the documents that are not
\* failed and whose current version has, for the method, no succeeded row,
\* no pending claim and no failure newer than the retry interval; a document
\* of any other status without a row for the method is counted, and the
\* rows of another method do not change the count.
CountNeedingExact ==
    \A m \in Methods, retry_hours \in RetryHoursChoices :
        /\ get_needing_analysis(documents, document_versions, analysis_results,
                                m, hours, retry_hours) = ExpectedNeeding(m, retry_hours)
        /\ count_needing_analysis(documents, document_versions, analysis_results,
                                  m, hours, retry_hours)
              = count_needing_analysis(documents, document_versions,
                    {r \in analysis_results : r.method = m}, m, hours, retry_hours)

\* One document is failed, the other is indexed and has a whisper result but
\* no ocr row: the ocr count is one.
IndexedCountedWitness ==
    \E d1, d2 \in documents :
        /\ d1.status = "failed"
        /\ d2.status = "indexed"
        /\ CurrentRows(d1, "ocr") = {}
        /\ CurrentRows(d2, "ocr") = {}
        /\ CurrentRows(d2, "whisper") # {}
        /\ count_needing_analysis(documents, document_versions, analysis_results,
                                  "ocr", hours, 2) = 1

\* C12: a task whose row is a failure recorded at T0 is not eligible before
\* T0 + retry_hours and is eligible from then on; with retry_hours = 0 it is
\* eligible as soon as the failure is stored.
FailureCooldown ==
    \A d \in documents, m \in Methods, retry_hours \in RetryHoursChoices :
        d.status # "failed" =>
            \A r \in CurrentRows(d, m) :
                r.error # NULL =>
                    (needs_analysis(documents, document_versions, analysis_results,
                                    d, m, hours, retry_hours)
                        <=> hours >= r.created_at + retry_hours)

\* The clock stands exactly one retry interval after a failure, and the
\* task is eligible again.
CooldownOverWitness ==
    \E d \in documents, m \in Methods :
        /\ d.status # "failed"
        /\ \E r \in CurrentRows(d, m) :
              r.error # NULL /\ r.created_at + 2 = hours
        /\ d \in get_needing_analysis(documents, document_versions,
                                       analysis_results, m, hours, 2)

\* C13: for every method, count_pending_analysis + count_succeeded +
\* count_recent_failures + count_needing_analysis equals the number of
\* eligible documents.
ProgressAccounting ==
    \A m \in Methods, retry_hours \in RetryHoursChoices :
        count_pending_analysis(analysis_results, m)
          + count_succeeded(analysis_results, m)
          + count_recent_failures(analysis_results, m, hours, retry_hours)
          + count_needing_analysis(documents, document_versions, analysis_results,
                                   m, hours, retry_hours)
          = count_eligible_documents(documents, document_versions, m)

(***************************************************************************)
(* Claims about the crawl frontier and the document versions.              *)
(***************************************************************************)
AllowedTransitions ==
    {<<"pending", "fetching">>, <<"fetching", "fetched">>,
     <<"fetching", "skipped">>, <<"fetching", "pending">>,
     <<"fetching", "failed">>}

TerminalStatuses == {"fetched", "skipped", "failed"}

OneFetcherPerUrl ==
    \A w1, w2 \in FetchWorkers :
        (fw[w1].pc = "fetching" /\ fw[w2].pc = "fetching"
            /\ fw[w1].url = fw[w2].url) => w1 = w2

\* The hash of the version of a document with the highest version number.
LatestHashIs(versions, document_id, hash) ==
    \E v \in VersionsOf(versions, document_id) :
        /\ \A o \in VersionsOf(versions, document_id) : o.version <= v.version
        /\ v.content_hash = hash

\* What a completed fetch must have done to the versions.
FetchEffect(w, resp) ==
    LET doc == DocOf(fw[w].url)
        appended == document_versions' \ document_versions
    IN
    /\ document_versions \subseteq document_versions'
    /\ IF resp.status = 200 /\ ~LatestHashIs(document_versions, doc, resp.hash)
       THEN /\ Cardinality(appended) = 1
            /\ \A v \in appended :
                  v.document_id = doc /\ v.content_hash = resp.hash
       ELSE appended = {}

\* C6: a completed fetch appends one version iff the response is a 2xx whose
\* body hash differs from the hash of the document's latest version; a 304,
\* an error or a matching hash appends nothing, and no fetch changes or
\* removes a version.
FetchAppendsIffNewContent ==
    [][\A w \in FetchWorkers, resp \in Responses :
          FetchComplete(w, resp) => FetchEffect(w, resp)]_vars

\* A second capture was appended by a fetch, and a later fetch of the same
\* bytes was skipped.
SecondVersionThenSkipWitness ==
    \E r \in crawl_urls :
        /\ r.status = "skipped"
        /\ r.content_hash # NULL
        /\ Cardinality(VersionsOf(document_versions, r.document_id)) >= 2
        /\ LatestHashIs(document_versions, r.document_id, r.content_hash)

\* C7: the version numbers of every document are exactly 1..n, and no two
\* versions of a document have the same content_hash.
VersionsContiguousDistinct ==
    \A d \in DocIds :
        LET rows == VersionsOf(document_versions, d) IN
        /\ {v.version : v \in rows} = 1..Cardinality(rows)
        /\ \A v1, v2 \in rows : v1.content_hash = v2.content_hash => v1 = v2

\* C8: every CrawlUrl that is fetched with content_hash H and document_id D
\* has a DocumentVersion of D with hash H.
FetchedHasVersion ==
    \A r \in crawl_urls :
        r.status = "fetched" =>
            \E v \in VersionsOf(document_versions, r.document_id) :
                v.content_hash = r.content_hash

(***************************************************************************)
(* Claims about the rate limiter.                                          *)
(***************************************************************************)
\* C2: acquire is serialized per domain: a call that returns for a domain
\* that already had a request returns at least the domain's current delay
\* after the return of the call before it.
AcquireSerialized ==
    [][\A c \in RLClients :
          AcquireMark(c) =>
              LET before == domains[rc[c].domain] IN
              (before.some /\ before.value.last_request.some) =>
                  now - before.value.last_request.value
                      >= before.value.current_delay]_vars

\* C3: a domain whose in_backoff flag is true has a current_delay strictly
\* greater than base_delay.
BackoffAboveBase ==
    \A d \in RLDomains :
        (domains[d].some /\ domains[d].value.in_backoff) =>
            domains[d].value.current_delay > config.base_delay

\* A domain that was rate limited and has recovered part of the way: it
\* is still in backoff, below the delay the rate limit had set.
PartlyRecoveredWitness ==
    \E d \in RLDomains :
        /\ domains[d].some
        /\ domains[d].value.in_backoff
        /\ domains[d].value.rate_limit_hits = 1
        /\ domains[d].value.current_delay
              < mul_f64(config.base_delay, config.backoff_multiplier)

(***************************************************************************)
(* Claims about the detection of rate limits behind 403 responses.         *)
(***************************************************************************)
\* The 403s of a ring that lie inside the detection window at instant t.
InWindow(ring, t) ==
    {i \in 1..Len(ring) : ring[i].time >= t - RATE_LIMIT_WINDOW}

\* The distinct URLs with a 403 inside the window.
UrlsInWindow(ring, t) == {ring[i].url : i \in InWindow(ring, t)}

\* C14: from an empty 403 ring, three different URLs of a domain that each
\* get one 403 inside the window, without Retry-After and without a success
\* or rate limit in between: report_403 returns false for the first two and
\* true for the third, which leaves the domain in backoff with a delay of at
\* least twice the base delay.
ThirdDistinctUrlDetected ==
    [][\A d \in RLDomains : \A u \in UrlsOf(d) :
          Report403Observed(d, u, FALSE) =>
              LET ring == domains[d].value.recent_403s
                  seen == UrlsInWindow(ring, now)
              IN
              (/\ u \notin seen
               /\ Cardinality(InWindow(ring, now)) = Cardinality(seen)
               /\ Cardinality(seen) <= 2)
              => /\ returned'.value.detected = (Cardinality(seen) = 2)
                 /\ Cardinality(seen) = 2 =>
                       /\ domains'[d].value.in_backoff
                       /\ domains'[d].value.current_delay >= 2 * config.base_delay
                 /\ Cardinality(seen) < 2 =>
                       /\ domains'[d].value.in_backoff = domains[d].value.in_backoff
                       /\ domains'[d].value.current_delay
                             = domains[d].value.current_delay]_vars

\* The last 403, without Retry-After, was taken for a rate limit: the site
\* is in backoff after its first rate limit, at twice the base delay.
PatternDetectedWitness ==
    /\ returned.some
    /\ returned.value.detected
    /\ ~returned.value.has_retry_after
    /\ domains[Site].value.in_backoff
    /\ domains[Site].value.rate_limit_hits = 1
    /\ domains[Site].value.recent_403s = <<>>
    /\ domains[Site].value.current_delay = 2 * config.base_delay

\* C15: 403s without Retry-After on one and the same URL inside the window
\* never put the domain in backoff: the distinct-URL count stays 1,
\* report_403 returns false, in_backoff and current_delay do not change.
SameUrlNeverDetected ==
    [][\A d \in RLDomains : \A u \in UrlsOf(d) :
          (/\ Report403Observed(d, u, FALSE)
           /\ UrlsInWindow(domains[d].value.recent_403s, now) \subseteq {u})
          => /\ ~returned'.value.detected
             /\ UniqueUrls(domains'[d].value.recent_403s) = {u}
             /\ domains'[d].value.in_backoff = domains[d].value.in_backoff
             /\ domains'[d].value.current_delay
                   = domains[d].value.current_delay]_vars

\* One URL got three 403s inside the window and the site is not in backoff.
SameUrlRepeatedWitness ==
    /\ returned.some
    /\ ~returned.value.detected
    /\ Len(domains[Site].value.recent_403s) >= 3
    /\ Cardinality(UniqueUrls(domains[Site].value.recent_403s)) = 1
    /\ Cardinality(InWindow(domains[Site].value.recent_403s, now)) >= 3
    /\ ~domains[Site].value.in_backoff

RECURSIVE Pow(_, _)
Pow(b, n) == IF n = 0 THEN 1 ELSE b * Pow(b, n - 1)

\* min(d_max, base_delay x backoff_multiplier^n)
GeometricDelay(cfg, n) ==
    Min2(cfg.max_delay,
         (cfg.base_delay * Pow(cfg.backoff_multiplier.num, n))
             \div Pow(cfg.backoff_multiplier.den, n))

\* C17: after n report_rate_limit calls in a row on a domain that was at
\* base delay, current_delay = min(d_max, base_delay x backoff_multiplier^n);
\* each call sets in_backoff, resets the success counter and adds one to the
\* hit counter; with base 100 ms, multiplier 2.0 and d_max 60 s, ten calls
\* give 60000 ms.
BackoffGeometricCapped ==
    /\ [](\A d \in RLDomains :
            domains[d].some =>
                /\ domains[d].value.current_delay
                      = GeometricDelay(config, domains[d].value.rate_limit_hits)
                /\ (config = RateLimitConfig_test
                        /\ domains[d].value.rate_limit_hits = 10)
                     => domains[d].value.current_delay = 60000)
    /\ [][\A d \in RLDomains :
            ReportRateLimitWithin(d, MaxRateLimits) =>
                /\ domains'[d].value.in_backoff
                /\ domains'[d].value.consecutive_successes = 0
                /\ domains'[d].value.rate_limit_hits
                      = domains[d].value.rate_limit_hits + 1]_vars

\* Ten 429s in a row under the configuration with base 100 ms: the delay
\* stands at the cap.
TenRateLimitsWitness ==
    /\ config = RateLimitConfig_test
    /\ domains[Site].value.rate_limit_hits = 10
    /\ domains[Site].value.in_backoff
    /\ domains[Site].value.current_delay = 60000

\* max(d_min, d x recovery_multiplier)
ReducedDelay(cfg, d) == Max2(cfg.min_delay, mul_f64(d, cfg.recovery_multiplier))

\* Where a domain that was in backoff at delay d stands after k reductions:
\* the first reduction that gives base_delay or less ends the backoff at
\* base_delay, and there is no reduction after it.
RECURSIVE AfterReductions(_, _, _)
AfterReductions(cfg, d, k) ==
    IF k = 0 THEN [delay |-> d, in_backoff |-> TRUE]
    ELSE LET before == AfterReductions(cfg, d, k - 1) IN
         IF ~before.in_backoff THEN before
         ELSE IF ReducedDelay(cfg, before.delay) <= cfg.base_delay
              THEN [delay |-> cfg.base_delay, in_backoff |-> FALSE]
              ELSE [delay |-> ReducedDelay(cfg, before.delay), in_backoff |-> TRUE]

\* C18: a domain in backoff has its delay reduced once per recovery_threshold
\* successes in a row, to max(d_min, d x recovery_multiplier), the success
\* counter being reset by each reduction; from 2000 ms with multiplier 0.8
\* and threshold 5, 50 successes make 10 reductions, to about 214 ms; the
\* reduction that gives base_delay or less ends the backoff at base_delay.
RecoveryStepwise ==
    /\ [](LET n == success_run[Site]
              expected == AfterReductions(config, 2000, n \div config.recovery_threshold)
          IN
          /\ domains[Site].value.current_delay = expected.delay
          /\ domains[Site].value.in_backoff = expected.in_backoff
          /\ expected.in_backoff =>
                domains[Site].value.consecutive_successes
                    = n % config.recovery_threshold
          /\ (config = RateLimitConfig_test /\ n = 50) =>
                /\ domains[Site].value.in_backoff
                /\ domains[Site].value.current_delay \in 214..215)
    /\ [][\A d \in RLDomains :
            ReportSuccessCounted(d) =>
                LET before == domains[d].value
                    after == domains'[d].value
                    due == before.in_backoff
                             /\ before.consecutive_successes + 1
                                   >= config.recovery_threshold
                    reduced == ReducedDelay(config, before.current_delay)
                IN
                IF due
                THEN /\ after.consecutive_successes = 0
                     /\ after.in_backoff = (reduced > config.base_delay)
                     /\ after.current_delay
                           = IF reduced > config.base_delay THEN reduced
                             ELSE config.base_delay
                ELSE /\ after.consecutive_successes = before.consecutive_successes + 1
                     /\ after.in_backoff = before.in_backoff
                     /\ after.current_delay = before.current_delay]_vars

\* Fifty successes in a row after the restart at 2000 ms, base delay 100 ms:
\* ten reductions have brought the delay to 214 ms, still in backoff.
FiftySuccessesWitness ==
    /\ config = RateLimitConfig_test
    /\ success_run[Site] = 50
    /\ domains[Site].value.in_backoff
    /\ domains[Site].value.current_delay = 214
    /\ domains[Site].value.consecutive_successes = 0

(***************************************************************************)
(* Claims about the failure semantics of acquire.                          *)
(***************************************************************************)
\* C19: acquire never returns an error: whatever the URL and whatever the
\* condition of the backing store, every result a caller has got from the
\* backend's acquire is a wait, never an error.
AcquireNeverErrs ==
    \A c \in RLClients :
        backend_result[c].some => backend_result[c].value.ok

\* C20: in every get and head, acquire is called before the request is
\* sent, and once the response of whatever status class has been handled,
\* exactly one report_* call has been made to the rate limiter.
AcquireThenOneReport ==
    \A c \in RLClients :
        /\ (http[c].pc \in {"sent", "responded", "reported"} /\ http[c].domain.some)
              => /\ domains[http[c].domain.value].some
                 /\ domains[http[c].domain.value].value.total_requests >= 1
        /\ http[c].pc = "reported" => http[c].reports = 1

(***************************************************************************)
(* Claims about the request log.                                           *)
(***************************************************************************)
\* C21: every HTTP attempt of get or head, whether it ends in a response or
\* in a transport error, has added exactly one CrawlRequest row to the
\* request log by the time the call returns.
OneRowPerAttempt ==
    \A c \in RLClients :
        http[c].pc \in {"reported", "failed"} => http[c].logged = 1

\* C29: If-None-Match is on the request exactly when an ETag was supplied
\* and If-Modified-Since exactly when a Last-Modified was supplied; every
\* logged row has was_conditional true exactly when one of the two headers
\* was sent and was_not_modified true exactly when the status is 304.
ConditionalHeadersLogged ==
    /\ \A c \in RLClients :
          http[c].request_log.some =>
             LET sent == DOMAIN http[c].request_log.value.request_headers IN
             /\ ("If-None-Match" \in sent) = http[c].etag.some
             /\ ("If-Modified-Since" \in sent) = http[c].last_modified.some
             /\ ("If-None-Match" \in sent) =>
                   http[c].request_log.value.request_headers["If-None-Match"]
                      = http[c].etag.value
             /\ http[c].pc \in {"responded", "reported"} =>
                   /\ crawl_requests # <<>>
                   /\ crawl_requests[Len(crawl_requests)] = http[c].request_log.value
    /\ \A i \in 1..Len(crawl_requests) :
          LET row == crawl_requests[i] IN
          /\ row.was_conditional = (DOMAIN row.request_headers # {})
          /\ row.response_status.some
          /\ row.was_not_modified = (row.response_status.value = 304)

\* A first fetch without validators is logged as unconditional, and a
\* revalidation answered 304 as conditional and not modified.
RevalidationLoggedWitness ==
    /\ Len(crawl_requests) = 2
    /\ ~crawl_requests[1].was_conditional
    /\ crawl_requests[1].response_status = Some(200)
    /\ crawl_requests[2].was_conditional
    /\ crawl_requests[2].was_not_modified
    /\ DOMAIN crawl_requests[2].request_headers = {"If-None-Match"}

(***************************************************************************)
(* Claims about the uniqueness of the frontier's rows.                     *)
(***************************************************************************)
\* C22: add_url is idempotent: the first call for a URL inserts one pending
\* row and returns true, every later call returns false and changes
\* nothing, and there is never more than one row per (source_id, url).
AddUrlIdempotent ==
    /\ [](\A u \in FrontierUrls : Cardinality(get_url(crawl_urls, u)) <= 1)
    /\ [][\A u \in FrontierUrls :
            TrackUrlObserved(u) =>
               IF get_url(crawl_urls, u) = {}
               THEN /\ returned' = Some([url |-> u, inserted |-> TRUE])
                    /\ crawl_urls' = crawl_urls \cup {NewCrawlUrl(u)}
               ELSE /\ returned' = Some([url |-> u, inserted |-> FALSE])
                    /\ crawl_urls' = crawl_urls]_vars

\* A URL that was fetched is tracked again: the answer is false and its row
\* is still the fetched one.
TrackedAgainWitness ==
    /\ returned = Some([url |-> "u1", inserted |-> FALSE])
    /\ \E r \in crawl_urls : r.url = "u1" /\ r.status = "fetched"
    /\ \E r \in crawl_urls : r.url = "u2" /\ r.status = "pending"

(***************************************************************************)
(* Claims about the configuration history.                                 *)
(***************************************************************************)
\* The ids of the rows inserted last, at most MAX_HISTORY_ENTRIES of them.
LatestIds ==
    {i \in 1..(config_history.next_id - 1) :
        i > config_history.next_id - 1 - MAX_HISTORY_ENTRIES}

\* C23: after any sequence of insert_if_new calls the history holds at most
\* 16 entries, they are the most recently inserted ones, and no two have
\* the same hash; a call whose hash is stored returns false and adds no row.
HistoryBounded ==
    /\ [](/\ Cardinality(config_history.rows) <= 16
          /\ {r.id : r \in config_history.rows} = LatestIds
          /\ \A r, q \in config_history.rows : r.hash = q.hash => r = q)
    /\ [][\A h \in ConfigHashes :
            (InsertIfNew(h) /\ hash_exists(config_history.rows, h)) =>
               /\ returned' = Some([hash |-> h, inserted |-> FALSE])
               /\ config_history' = config_history]_vars

\* The seventeenth configuration has pushed the first one out, and the
\* first one was then recorded again as a new entry.
PrunedHashAgainWitness ==
    /\ Cardinality(config_history.rows) = 16
    /\ \E r \in config_history.rows : r.hash = 1 /\ r.id = 18
    /\ ~hash_exists(config_history.rows, 2)
    /\ returned = Some([hash |-> 17, inserted |-> FALSE])

(***************************************************************************)
(* Claims about the choice between extractor text and OCR text.            *)
(***************************************************************************)
\* The text of a page by the rule of six fifths: the OCR text when it has
\* at least 120% of the extractor's characters.
SixFifthsText(page) ==
    LET pdf_text == IF page.pdf.some THEN page.pdf.value ELSE <<>> IN
    IF page.ocr.some
       /\ 5 * non_whitespace_chars(page.ocr.value)
             >= 6 * non_whitespace_chars(pdf_text)
    THEN page.ocr.value ELSE pdf_text

\* C24: for every page with extractor text of p and OCR text of o
\* whitespace-stripped characters, the extracted text is the OCR text
\* exactly when 5 * o >= 6 * p and the extractor text otherwise.
OcrChosenAtSixFifths ==
    LET pages == extract_job.pages IN
    (/\ extract_job.result.some
     /\ extract_job.result.value.ok
     /\ \A i \in 1..Len(pages) : pages[i].pdf.some /\ pages[i].ocr.some)
       => extract_job.result.value.value.text
             = join([i \in 1..Len(pages) |-> SixFifthsText(pages[i])])

(***************************************************************************)
(* Claims about the pages of a document version.                           *)
(***************************************************************************)
\* C25: a page's status advances monotonically: no save_page and no
\* store_page_ocr_result moves a page that is at ocr_complete to another
\* status.
OcrCompleteIsFinal ==
    [][\A r \in document_pages.rows : \A q \in document_pages'.rows :
          (r.page_number = q.page_number /\ r.ocr_status = "ocr_complete")
             => q.ocr_status = "ocr_complete"]_vars

\* The final_text values of the pages in page order, joined by a blank line.
FinalTextsJoined(table) ==
    LET pages == PagesInOrder(table.rows)
        combined == join(flatten([i \in 1..Len(pages) |-> pages[i].final_text]))
    IN IF combined = <<>> THEN None ELSE Some(combined)

\* C30: the combined text of a document version is the final_text of its
\* pages, in page-number order, joined by a blank line.
CombinedIsFinalTexts ==
    [][GetCombinedPageText
          => returned'.value.combined = FinalTextsJoined(document_pages)]_vars

(***************************************************************************)
(* Claims about the bounds of the delay.                                   *)
(***************************************************************************)
\* C27: in every state the limiter reaches, the current_delay of every
\* domain it knows is at least min_delay and at most max_delay.
DelayWithinBounds ==
    \A d \in RLDomains :
        domains[d].some =>
            /\ config.min_delay <= domains[d].value.current_delay
            /\ domains[d].value.current_delay <= config.max_delay

\* The site was slowed down by rate limits and a server error until the
\* delay stopped at max_delay.
DelayAtMaxWitness ==
    /\ domains[Site].some
    /\ domains[Site].value.current_delay = config.max_delay
    /\ domains[Site].value.rate_limit_hits > 0
    /\ server_errors > 0

(***************************************************************************)
(* Claims about the wait of acquire.                                       *)
(***************************************************************************)
\* The wait the worker is told when it enters acquire for a domain.
WaitComputed ==
    \A d \in RLDomains :
        (/\ rc[SoleClient].pc = "idle"
         /\ rc'[SoleClient].pc = "sleeping"
         /\ rc'[SoleClient].domain = d)
           => rc'[SoleClient].wake - now =
                 IF domains[d].some /\ domains[d].value.last_request.some
                 THEN Max2(0, domains[d].value.current_delay
                                 - (now - domains[d].value.last_request.value))
                 ELSE 0

\* The instant at which the worker comes out of acquire for a domain.
ReturnsAfterDelay ==
    \A d \in RLDomains :
        (/\ rc[SoleClient].pc = "sleeping"
         /\ rc[SoleClient].domain = d
         /\ rc'[SoleClient].pc = "idle"
         /\ domains[d].some
         /\ domains[d].value.last_request.some)
           => /\ now >= domains[d].value.last_request.value
                           + domains[d].value.current_delay
              /\ domains'[d].value.last_request = Some(now)

\* C28: for a single worker acquire waits max(0, d - (now - t_last)) with d
\* the delay of the domain at the call, and nothing for a domain without a
\* previous request; it does not return before t_last + d, whatever report
\* has raised d since the last request.
SingleWorkerWaits == [][WaitComputed /\ ReturnsAfterDelay]_vars

\* The worker has slept through what was left of the delay that a rate
\* limit had raised after its last request.
SleptRaisedDelayWitness ==
    /\ rc[SoleClient].pc = "sleeping"
    /\ rc[SoleClient].domain = Site
    /\ domains[Site].some
    /\ domains[Site].value.rate_limit_hits = 1
    /\ domains[Site].value.last_request.some
    /\ domains[Site].value.last_request.value < now
    /\ now = rc[SoleClient].wake
    /\ now = domains[Site].value.last_request.value + domains[Site].value.current_delay

(***************************************************************************)
(* Claims about the restart of the limiter.                                *)
(***************************************************************************)
\* Domain d, worth a row before the restart, is back after it with the
\* given delay and its flag and counters.
RestoredWith(d, delay) ==
    /\ domains'[d].some
    /\ domains'[d].value.current_delay = delay
    /\ domains'[d].value.in_backoff = domains[d].value.in_backoff
    /\ domains'[d].value.total_requests = domains[d].value.total_requests
    /\ domains'[d].value.rate_limit_hits = domains[d].value.rate_limit_hits

\* A row goes away only when the limiter holds nothing of worth for its
\* domain and the row itself is out of backoff at or below the base delay.
DeletedOnlyAtBase ==
    \A d \in RLDomains :
        (rate_limit_state[d].some /\ ~rate_limit_state'[d].some)
           => /\ ~(domains[d].some /\ NonDefault(config, domains[d].value))
              /\ ~rate_limit_state[d].value.in_backoff
              /\ rate_limit_state[d].value.current_delay_ms
                    <= as_millis(config.base_delay, MicrosPerMilli)

\* C26: after save_rate_limit_state and load_rate_limit_state into a new
\* limiter of the same configuration, every domain that was in backoff or
\* above the base delay has the same current_delay, in_backoff,
\* total_requests and rate_limit_hits, and a row is deleted only for a
\* domain out of backoff at or below the base delay.
RestartRestoresState ==
    [][/\ Restart =>
            \A d \in RLDomains :
                (domains[d].some /\ NonDefault(config, domains[d].value))
                   => RestoredWith(d, domains[d].value.current_delay)
       /\ DeletedOnlyAtBase]_vars

(***************************************************************************)
(* Claims about the end of a backoff.                                      *)
(***************************************************************************)
SiteInBackoff == domains[Site].some /\ domains[Site].value.in_backoff

SiteRecovered ==
    /\ domains[Site].some
    /\ ~domains[Site].value.in_backoff
    /\ domains[Site].value.current_delay = config.base_delay

\* C31: a domain in backoff that from some point on gets only successes
\* leaves backoff in the end, at the base delay, under every configuration
\* the limiter accepts.
RecoveryTerminates == SiteInBackoff ~> SiteRecovered

\* C31, amended: a domain in backoff that from some point on gets only
\* successes leaves backoff in the end, at the base delay, when the
\* configuration's min_delay is not above its base_delay.
RecoveryTerminatesAboveFloor ==
    (SiteInBackoff /\ config.min_delay <= config.base_delay) ~> SiteRecovered

\* The site has left the backoff of a rate limit and is at the base delay.
RecoveredWitness ==
    /\ SiteRecovered
    /\ config.min_delay <= config.base_delay
    /\ domains[Site].value.rate_limit_hits > 0
    /\ domains[Site].value.consecutive_successes = 0

(***************************************************************************)
(* Claims about successes between 403s.                                    *)
(***************************************************************************)
\* After a success nothing is left in the ring of the domain.
RingEmptyAfterSuccess ==
    \A d \in RLDomains :
        (domains[d].some /\ domains[d].value.consecutive_successes > 0)
           => domains[d].value.recent_403s = <<>>

\* A 403 without Retry-After that comes right after a success is the only
\* one in the ring: it is not taken for a rate limit.
First403AfterSuccessNotDetected ==
    \A d \in RLDomains :
        (/\ domains[d].some
         /\ domains[d].value.consecutive_successes > 0
         /\ domains'[d].value.recent_403s # <<>>
         /\ ~returned'.value.has_retry_after)
           => /\ ~returned'.value.detected
              /\ Len(domains'[d].value.recent_403s) = 1
              /\ domains'[d].value.in_backoff = domains[d].value.in_backoff
              /\ domains'[d].value.current_delay = domains[d].value.current_delay

\* C32: report_success empties the 403 ring of the domain, so the 403s seen
\* before a success never count: after two 403s on two URLs and a success,
\* a 403 on a third URL inside the window is not detected as a rate limit
\* and leaves the domain out of backoff.
SuccessMasks403s ==
    [](RingEmptyAfterSuccess) /\ [][First403AfterSuccessNotDetected]_vars

\* Inside the window of the two first 403s, after a success, the 403 on the
\* third URL is alone in the ring and was not detected.
Third403MaskedWitness ==
    /\ now < RATE_LIMIT_WINDOW
    /\ domains[Site].some
    /\ ~domains[Site].value.in_backoff
    /\ domains[Site].value.rate_limit_hits = 0
    /\ Len(domains[Site].value.recent_403s) = 1
    /\ domains[Site].value.recent_403s[1].url = [host |-> Site, path |-> "/3"]
    /\ returned = Some([has_retry_after |-> FALSE, detected |-> FALSE])

(***************************************************************************)
(* Claims about find_ready_url.                                            *)
(***************************************************************************)
\* The positions of the list whose URL has a host.
Parsable(urls) == {i \in 1..Len(urls) : urls[i].host # NULL}

\* Position i holds the first URL of the list whose wait is the least.
FirstOfLeastWait(urls, i) ==
    /\ i \in Parsable(urls)
    /\ \A j \in Parsable(urls) :
          /\ WaitOf(domains, urls[i], now) <= WaitOf(domains, urls[j], now)
          /\ (WaitOf(domains, urls[j], now) = WaitOf(domains, urls[i], now)) => i <= j

\* C33: find_ready_url returns the first URL of the list whose domain's
\* time until ready is the least among the URLs with a host (a domain never
\* seen waits zero), and nothing only when no URL of the list has a host.
FindsLeastWait ==
    [][returned' # returned =>
          LET urls == returned'.value.urls
              found == returned'.value.found
          IN IF Parsable(urls) = {} THEN found = None
             ELSE \E i \in Parsable(urls) :
                     FirstOfLeastWait(urls, i) /\ found = Some(urls[i])]_vars

\* Both sites make the caller wait, the first of the list longer than the
\* second: the second URL is found.
SecondUrlSoonerWitness ==
    /\ returned.some
    /\ Len(returned.value.urls) = 2
    /\ Parsable(returned.value.urls) = {1, 2}
    /\ WaitOf(domains, returned.value.urls[1], now)
          > WaitOf(domains, returned.value.urls[2], now)
    /\ WaitOf(domains, returned.value.urls[2], now) > 0
    /\ returned.value.found = Some(returned.value.urls[2])

(***************************************************************************)
(* Claims about the SQLite backend under several processes.                *)
(***************************************************************************)
\* C34: with the SQLite backend acquire is atomic across processes: every
\* call that changes the row of the domain adds one to total_requests and
\* reserves a request time at least current_delay after the one reserved by
\* the call committed before it.
BackendReservationsApart ==
    [][\A d \in RLDomains :
          (rate_limit_domains'[d] # rate_limit_domains[d])
             => /\ rate_limit_domains'[d].value.total_requests
                      = BackendRequestsOf(d) + 1
                /\ (rate_limit_domains[d].some
                    /\ rate_limit_domains[d].value.last_request_at.some)
                      => rate_limit_domains'[d].value.last_request_at.value
                            >= rate_limit_domains[d].value.last_request_at.value
                                  + rate_limit_domains[d].value.current_delay_ms]_vars

\* C35: for the same 403 events at the same instants the ring in memory and
\* the table of the SQLite backend count the same number of distinct URLs
\* in the window, an event exactly one window old included.
TrackersAgree ==
    returned.some => returned.value.memory = returned.value.backend

(***************************************************************************)
(* Claims about the retry of a failed task.                                *)
(***************************************************************************)
\* The failure row of the task is older than the retry interval.
FailureIsOld(retry_hours) ==
    /\ FailureRow \in analysis_results
    /\ ~BlocksAnalysis(FailureRow, hours, retry_hours)

\* C36: a failed task is eventually retried: once its failure row is older
\* than the retry interval the task is selected, a worker's claim on its key
\* succeeds and the store that follows replaces the failure row, leaving
\* one row for the key.
FailedTaskRetried ==
    FailureIsOld(MaxHours)
       ~> /\ FailureRow \notin analysis_results
          /\ Cardinality(RowsOfKey(analysis_results, FailedKey)) = 1
          /\ \A r \in RowsOfKey(analysis_results, FailedKey) : r.backend # "pending"

(***************************************************************************)
(* Claims about reports for a domain the limiter has no record of.         *)
(***************************************************************************)
\* C37: report_success, report_rate_limit, report_403 and
\* report_server_error on a domain for which acquire was never called
\* change nothing and create no record of the domain; report_403 then
\* returns false, also when has_retry_after is true.
UnknownDomainReportsIgnored ==
    [][(returned' # returned /\ ~domains[returned'.value.domain].some)
          => /\ domains' = domains
             /\ ~domains'[returned'.value.domain].some
             /\ ~returned'.value.detected]_vars

\* A 403 with Retry-After was reported for a domain without a record: not
\* detected, and the domain still has no record.
UnknownRetryAfterWitness ==
    /\ returned.some
    /\ returned.value.kind = "403"
    /\ returned.value.has_retry_after
    /\ ~returned.value.known
    /\ ~returned.value.detected
    /\ ~domains[returned.value.domain].some

(***************************************************************************)
(* Claims about server errors.                                             *)
(***************************************************************************)
\* The site's state before and after a step.
SiteState == domains[Site].value

\* C38: report_server_error sets the delay to min(max_delay, delay x 1.5)
\* and leaves in_backoff, the success counter, the 403 ring and the hit
\* counter as they were; report_success never lowers the delay of a domain
\* that is not in backoff, so a delay that only server errors raised stays
\* raised whatever successes follow.
ServerErrorOnlySlowsDown ==
    [][/\ ReportServerError(Site)
          => /\ SiteState'.current_delay
                   = Min2(config.max_delay, (SiteState.current_delay * 3) \div 2)
             /\ SiteState'.in_backoff = SiteState.in_backoff
             /\ SiteState'.consecutive_successes = SiteState.consecutive_successes
             /\ SiteState'.recent_403s = SiteState.recent_403s
             /\ SiteState'.rate_limit_hits = SiteState.rate_limit_hits
       /\ (ReportSuccess(Site) /\ ~SiteState.in_backoff)
          => /\ SiteState'.current_delay >= SiteState.current_delay
             /\ ~SiteState'.in_backoff]_vars

\* A server error raised the delay of the site outside backoff, and a
\* threshold of successes later the delay is still above base_delay.
RaisedDelayKeptWitness ==
    /\ server_errors > 0
    /\ ~SiteState.in_backoff
    /\ SiteState.rate_limit_hits = 0
    /\ SiteState.current_delay > config.base_delay
    /\ SiteState.consecutive_successes >= config.recovery_threshold

(***************************************************************************)
(* Claims about save_domain_state.                                         *)
(***************************************************************************)
\* What a limiter holds of a domain, in the units of the table; a domain
\* without a record counts as not in backoff at the base delay.
InBackoffOf(state) == state.some /\ state.value.in_backoff

DelayMsOf(state) ==
    IF state.some THEN as_millis(state.value.current_delay, MicrosPerMilli)
    ELSE as_millis(config.base_delay, MicrosPerMilli)

\* C39: after save_domain_state(domain) the persisted state of the domain
\* agrees with memory: load_rate_limit_state into a fresh limiter gives the
\* domain the in_backoff and the current_delay (here: its milliseconds) the
\* limiter held at the save, also when the save follows the recovery from
\* a backoff that was saved earlier.
SavedDomainAgrees ==
    returned.some =>
       LET loaded == load_rate_limit_state_in(config, RowsOf(rate_limit_state),
                                              MicrosPerMilli)[returned.value.domain]
       IN /\ InBackoffOf(loaded) = InBackoffOf(returned.value.memory)
          /\ DelayMsOf(loaded) = DelayMsOf(returned.value.memory)

(***************************************************************************)
(* Claims about the life of a pending claim.                               *)
(***************************************************************************)
\* The key holds the sentinel row of a claim.
IsClaimed(key) ==
    \E r \in RowsOfKey(analysis_results, key) : r.backend = "pending"

\* C40: a pending claim has no expiry: from a successful claim_analysis
\* until store_analysis_result on the same key the key is not returned by
\* get_needing_analysis nor counted by count_needing_analysis, however much
\* time has passed and whatever retry_hours is.
PendingClaimNeverExpires ==
    \A d \in documents, m \in Methods, retry_hours \in 0..MaxHours :
       IsClaimed(CurrentKey(document_versions, d.id, m))
          => /\ d \notin get_needing_analysis(documents, document_versions,
                                              analysis_results, m, hours, retry_hours)
             /\ count_needing_analysis(documents, document_versions,
                                       analysis_results, m, hours, retry_hours)
                   <= Cardinality(documents \ {d})

\* A worker claimed a task at hour 0 and has not stored a result when the
\* clock has run out: the task is still out of the queue, also for a retry
\* interval of zero.
StaleClaimWitness ==
    /\ hours = MaxHours
    /\ \E w \in AnalysisWorkers :
          /\ aw[w].pc = "working"
          /\ PendingRow(aw[w].key, 0) \in analysis_results
          /\ \A d \in documents :
                d.id = aw[w].key.document_id
                   => d \notin get_needing_analysis(documents, document_versions,
                                                    analysis_results,
                                                    aw[w].key.method, hours, 0)

====
